---------------------------- MODULE Spec2Model ----------------------------
(***************************************************************************)
(* A model of the lemurs login manager's privileged pipeline:              *)
(*   - the privilege drop registered by lower_command_permissions_to_user  *)
(*     and the session spawn of PostLoginEnvironment::spawn                *)
(*     (src/src/post_login/mod.rs),                                        *)
(*   - the PAM transaction of open_session and its conversation callback   *)
(*     (src/src/auth/pam.rs),                                              *)
(*   - the X server start-up handshake of setup_x                          *)
(*     (src/src/post_login/x.rs).                                          *)
(*   - the key loop and the drawing loop of LoginForm::run                 *)
(*     (src/src/ui/mod.rs).                                                *)
(* Each component has its own specification (SpecSpawn, SpecPam, SpecX,    *)
(* SpecUi);                                                                *)
(* the variables of the other components keep their initial value.         *)
(***************************************************************************)
EXTENDS Integers, Sequences, FiniteSets, TLC

VARIABLES
    child,      \* the forked child process (one per spawn)
    spawner,    \* PostLoginEnvironment::spawn: its position, inputs, result
    pam_pc,     \* open_session: the PAM call it is in, or where it ended
    pam_in,     \* open_session: its arguments and the name service's answer
    handle,     \* PamAuthenticator.handle: "null", "live" or "ended"
    last_status,\* PamAuthenticator.last_status
    password,   \* ConvData.password: the Mutex and the Option inside it
    conv_data,  \* the Box<ConvData>: "none", "allocated" or "freed"
    pam_log,    \* the PAM functions called so far, with what they returned
    last_conv,  \* the latest call of the conversation callback
    auth_result,\* what open_session returned
    pam_env,    \* AuthUserInfo.pam_env: the harvested environment map
    x_pc,       \* setup_x: its position
    x_in,       \* setup_x: the configuration and what its first steps find
    sigmask,    \* the signal mask of the thread that calls setup_x
    mask0,      \* that mask when setup_x was called
    signal_fd,  \* the SignalFd: "none", "open" or "closed"
    pending,    \* the blocked signals pending for the thread
    usr1,       \* the X server's SIGUSR1: "unsent", "sent" (and pending),
                \* "read" from the SignalFd, or "delivered" to the process
    clock,      \* SystemTime::now(), in milliseconds
    start_time, \* the clock sampled after the spawn
    poll_timeout,\* effective_timeout of the iteration
    x_result,   \* what setup_x returned
    x_events,   \* when, and at which position of setup_x, the X server sent
                \* its signal and exited, and whether a read of the
                \* SignalFd has failed
    ui_pc,      \* LoginForm::run: the position of the spawned thread
    ui_in,      \* LoginForm::run: preview, the switcher's visibility and
                \* the selected environment
    input_mode, \* LoginFormInputMode
    status_message, \* LoginFormStatusMessage
    keys,       \* the key events the terminal holds for event::read
    chan,       \* the requests in the channel of LoginForm::run
    draw_pc,    \* the drawing loop: "running" or "stopped"
    sent,       \* the requests whose send returned Ok, in order
    handled,    \* the requests the drawing loop received, in order
    key_log,    \* the key events read so far, with the mode they met
    attempts,   \* the number of calls of start_session
    xdg,        \* a PostLoginEnvironment and what to_xdg_type and
                \* to_xdg_desktop returned for it
    cli,        \* Cli::parse_args: its arguments, the ones not yet
                \* handled, the Cli it builds and what it returned
    container,  \* an EnvironmentContainer, the command it is applied to
                \* and the latest operation on it
    listing     \* get_envs: its position, its inputs and the list it builds

spawnVars == <<child, spawner>>

pamVars == <<pam_pc, pam_in, handle, last_status, password, conv_data,
             pam_log, last_conv, auth_result, pam_env>>

xVars == <<x_pc, x_in, sigmask, mask0, signal_fd, pending, usr1, clock,
           start_time, poll_timeout, x_result, x_events>>

uiVars == <<ui_pc, ui_in, input_mode, status_message, keys, chan, draw_pc,
            sent, handled, key_log, attempts>>

pureVars == <<xdg, cli>>

envVars == <<container, listing>>

vars == <<spawnVars, pamVars, xVars, uiVars, pureVars, envVars>>

(***************************************************************************)
(* Identities.                                                             *)
(***************************************************************************)

\* The uid of the superuser; the login manager runs as root.
ROOT == 0

\* The signal the X server sends its parent once it accepts connections.
SIGUSR1 == "SIGUSR1"

\* Some other signal, to tell SIGUSR1 from the rest of a signal mask.
SIGINT == "SIGINT"

Signals == {SIGUSR1, SIGINT}

\* Uids of the users that can log in.
UserUids == {ROOT, 1000}

\* Group ids in use on the machine.
GidPool == {100, 1000}

\* AuthUserInfo, reduced to the fields the spawn reads: uid, primary_gid,
\* all_gids (empty when the lookup of the groups fails) and shell.
AuthUserInfos ==
    [uid : UserUids, primary_gid : GidPool, all_gids : SUBSET GidPool,
     shell : {"/bin/bash"}]

\* The credentials and signal mask of the login manager itself.
LauncherCreds == [uid |-> ROOT, gid |-> ROOT, groups |-> {ROOT}]

(***************************************************************************)
(* Config and PostLoginEnvironment.                                        *)
(***************************************************************************)

ShellLoginFlags == {"None", "Short", "Long"}

Configs == [shell_login_flag : ShellLoginFlags, do_log : BOOLEAN]

PostLoginEnvironments ==
    {[kind |-> "Shell"],
     [kind |-> "Wayland", script_path |-> "/usr/bin/sway", env_name |-> "sway"]}

(***************************************************************************)
(* The privilege drop.                                                     *)
(***************************************************************************)

\* A reordered drop: the uid is given up first.
PreExecHook_UidFirst(user_info) ==
    << [call |-> "setuid", arg |-> user_info.uid],
       [call |-> "setgid", arg |-> user_info.primary_gid],
       [call |-> "setgroups", arg |-> user_info.all_gids] >>

\* The closure given to pre_exec: the calls it makes, in program order.
PreExecHook(user_info) ==
    << [call |-> "setgroups", arg |-> user_info.all_gids],
       [call |-> "setgid", arg |-> user_info.primary_gid],
       [call |-> "setuid", arg |-> user_info.uid] >>

\* Command::new(program): no arguments, no pre_exec closure.
CommandNew(program) ==
    [program |-> program, args |-> <<>>, pre_exec |-> <<>>, stdio |-> "default"]

lower_command_permissions_to_user(command, user_info) ==
    [command EXCEPT !.pre_exec = PreExecHook(user_info)]

\* Whether the kernel lets a process with credentials c make the call: the
\* superuser may set anything, another user may only restate what it has.
Permitted(c, step) ==
    \/ c.uid = ROOT
    \/ step.call = "setgid" /\ step.arg = c.gid
    \/ step.call = "setuid" /\ step.arg = c.uid

\* The results the call can have: a permitted call may still fail.
Outcomes(c, step) == IF Permitted(c, step) THEN BOOLEAN ELSE {FALSE}

\* The child's credentials after the call.
ApplyCall(c, step, ok) ==
    IF ~ok THEN c
    ELSE CASE step.call = "setgroups" -> [c EXCEPT !.groups = step.arg]
           [] step.call = "setgid"    -> [c EXCEPT !.gid = step.arg]
           [] step.call = "setuid"    -> [c EXCEPT !.uid = step.arg]

\* A closure that goes on after a failed call.
AfterCall_Swallow(c, ok) ==
    [c EXCEPT !.ip = @ + 1]

\* The `?` after each call of the closure: on Err the closure returns at
\* once, and the child of fork reports the error and exits without exec.
AfterCall(c, ok) ==
    IF ok THEN [c EXCEPT !.ip = @ + 1] ELSE [c EXCEPT !.pc = "aborted"]

NoChild ==
    [pc |-> "none", command |-> CommandNew("none"), ip |-> 1,
     uid |-> ROOT, gid |-> ROOT, groups |-> {ROOT},
     sigmask |-> {}, calls |-> <<>>]

\* fork: the child starts with the parent's credentials and signal mask and
\* has the command's pre_exec closure to run before exec.
ForkChild(command, creds, mask) ==
    [pc |-> "forked", command |-> command, ip |-> 1,
     uid |-> creds.uid, gid |-> creds.gid, groups |-> creds.groups,
     sigmask |-> mask, calls |-> <<>>]

\* LemursChild::spawn(command, log_path): spawns the command it is given,
\* with stdout and stderr sent to the log when there is a log path.
LemursChildSpawn(command, log_path, creds, mask) ==
    ForkChild([command EXCEPT !.stdio = IF log_path THEN "log" ELSE "null"],
              creds, mask)

\* The child makes the next call of its pre_exec closure.
ChildHookStep ==
    /\ child.pc = "forked"
    /\ child.ip <= Len(child.command.pre_exec)
    /\ LET step == child.command.pre_exec[child.ip] IN
       \E ok \in Outcomes(child, step) :
          child' = [AfterCall(ApplyCall(child, step, ok), ok)
                      EXCEPT !.calls = Append(child.calls,
                                  [call |-> step.call, ok |-> ok])]
    /\ UNCHANGED <<spawner, pamVars, xVars, uiVars, pureVars, envVars>>

\* The closure returned Ok(()): the child execs the program, which may fail.
ChildExec ==
    /\ child.pc = "forked"
    /\ child.ip > Len(child.command.pre_exec)
    /\ \E ok \in BOOLEAN :
          child' = [child EXCEPT
                      !.pc = IF ok THEN "running" ELSE "aborted",
                      !.calls = Append(@, [call |-> "exec", ok |-> ok])]
    /\ UNCHANGED <<spawner, pamVars, xVars, uiVars, pureVars, envVars>>

(***************************************************************************)
(* PostLoginEnvironment::spawn.                                            *)
(***************************************************************************)

LoginFlagArgs(config) ==
    CASE config.shell_login_flag = "None"  -> <<>>
      [] config.shell_login_flag = "Short" -> << "-l" >>
      [] config.shell_login_flag = "Long"  -> << "--login" >>

\* A spawn whose Wayland branch builds its command afresh, without the drop.
SpawnCommand_NoDrop(self, user_info, config) ==
    LET client == IF self.kind = "Wayland" THEN CommandNew("system_shell")
                  ELSE lower_command_permissions_to_user(
                           CommandNew("system_shell"), user_info)
        target == IF self.kind = "Wayland" THEN self.script_path
                  ELSE user_info.shell
    IN [client EXCEPT
          !.args = LoginFlagArgs(config) \o << "-c", target >>,
          !.stdio = IF self.kind = "Shell" THEN "inherit" ELSE "default"]

\* The command spawn builds: the system shell, privilege-dropped, with the
\* login flag, "-c" and the script (Wayland) or the user's shell (Shell).
SpawnCommand(self, user_info, config) ==
    LET client == lower_command_permissions_to_user(
                      CommandNew("system_shell"), user_info)
        target == IF self.kind = "Wayland" THEN self.script_path
                  ELSE user_info.shell
    IN [client EXCEPT
          !.args = LoginFlagArgs(config) \o << "-c", target >>,
          !.stdio = IF self.kind = "Shell" THEN "inherit" ELSE "default"]

SpawnIdle ==
    [pc |-> "idle", self |-> [kind |-> "Shell"],
     user_info |-> [uid |-> ROOT, primary_gid |-> 100, all_gids |-> {},
                    shell |-> "/bin/bash"],
     result |-> "none"]

\* spawn up to the fork of the child; the parent then waits for the child
\* to exec or to report an error.
SpawnBegin ==
    /\ spawner.pc = "idle"
    /\ \E self \in PostLoginEnvironments, user_info \in AuthUserInfos,
          config \in Configs :
          LET client == SpawnCommand(self, user_info, config) IN
          /\ child' = IF self.kind = "Wayland"
                      THEN LemursChildSpawn(client, config.do_log,
                                            LauncherCreds, {})
                      ELSE ForkChild(client, LauncherCreds, {})
          /\ spawner' = [pc |-> "spawning", self |-> self,
                         user_info |-> user_info, result |-> "none"]
    /\ UNCHANGED <<pamVars, xVars, uiVars, pureVars, envVars>>

\* spawn returns: the child handle, or the start error of the environment.
SpawnReturn ==
    /\ spawner.pc = "spawning"
    /\ child.pc \in {"running", "aborted"}
    /\ spawner' = [spawner EXCEPT
          !.pc = "returned",
          !.result = IF child.pc = "running" THEN "Ok"
                     ELSE IF spawner.self.kind = "Wayland" THEN "WaylandStart"
                     ELSE "TTYStart"]
    /\ UNCHANGED <<child, pamVars, xVars, uiVars, pureVars, envVars>>


(***************************************************************************)
(* PAM: the conversation callback.                                         *)
(***************************************************************************)

PAM_SUCCESS == 0

PAM_BUF_ERR == 5

PAM_CRED_UNAVAIL == 15

PAM_CRED_EXPIRED == 16

PAM_CONV_ERR == 19

PAM_PROMPT_ECHO_OFF == 1

PAM_PROMPT_ECHO_ON == 2

PAM_ERROR_MSG == 3

PAM_TEXT_INFO == 4

\* The message styles a module may send: the four above and PAM_RADIO_TYPE.
MsgStyles ==
    {PAM_PROMPT_ECHO_OFF, PAM_PROMPT_ECHO_ON, PAM_ERROR_MSG, PAM_TEXT_INFO, 5}

\* The longest message array of one conversation.
MaxMsgs == 2

MsgArrays == UNION {[1..n -> MsgStyles] : n \in 1..MaxMsgs}

\* The status codes the PAM functions return here: PAM_SUCCESS, PAM_AUTH_ERR,
\* PAM_CRED_UNAVAIL, PAM_CRED_EXPIRED and PAM_CRED_ERR.
StatusCodes == {PAM_SUCCESS, 7, PAM_CRED_UNAVAIL, PAM_CRED_EXPIRED, 17}

\* Option<SecretString> as a sequence of at most one secret.
None == <<>>

Some(secret) == << secret >>

\* The passwords tried: an ordinary one and one with a NUL byte inside.
Passwords == {[text |-> "hunter2", nul |-> FALSE],
              [text |-> "hun\\0ter", nul |-> TRUE]}

\* libc::strdup'ed response strings among the entries of a response array.
Strings(resp) ==
    [j \in 1..Len(SelectSeq(resp, LAMBDA e : e.resp # "null")) |->
        SelectSeq(resp, LAMBDA e : e.resp # "null")[j].resp]

\* An early return after the response array was stored through resp.
ConvAbort_Published(resp) ==
    [ret |-> PAM_CONV_ERR, published |-> TRUE, resp |-> resp,
     leaked |-> Strings(resp), panic |-> FALSE]

\* The early return of the callback: the response array is freed, its
\* strings are not, and nothing is stored through resp.
ConvAbort(resp) ==
    [ret |-> PAM_CONV_ERR, published |-> FALSE, resp |-> <<>>,
     leaked |-> Strings(resp), panic |-> FALSE]

RECURSIVE ConvLoop(_, _, _, _)
\* The for loop of the callback from message i on; resp holds the entries
\* filled in so far, pw is the Mutex and the Option it guards.
ConvLoop(msgs, i, pw, resp) ==
    IF i > Len(msgs)
    THEN [ret |-> PAM_SUCCESS, published |-> TRUE, resp |-> resp,
          leaked |-> <<>>, panic |-> FALSE]
    ELSE CASE msgs[i] \in {PAM_PROMPT_ECHO_OFF, PAM_PROMPT_ECHO_ON} ->
                IF pw.poisoned THEN ConvAbort(resp)
                ELSE IF pw.value = None
                THEN ConvLoop(msgs, i + 1, pw,
                         Append(resp, [resp |-> "null", resp_retcode |-> 0]))
                ELSE IF pw.value[1].nul
                \* CString::new(..).unwrap() panics on an interior NUL
                THEN [ret |-> PAM_CONV_ERR, published |-> FALSE,
                      resp |-> <<>>, leaked |-> Strings(resp), panic |-> TRUE]
                ELSE ConvLoop(msgs, i + 1, pw,
                         Append(resp, [resp |-> pw.value[1].text,
                                       resp_retcode |-> 0]))
           [] msgs[i] \in {PAM_ERROR_MSG, PAM_TEXT_INFO} ->
                ConvLoop(msgs, i + 1, pw,
                    Append(resp, [resp |-> "null", resp_retcode |-> 0]))
           [] OTHER -> ConvAbort(resp)

\* conversation(num_msg, msg, resp, appdata_ptr): calloc of the response
\* array, then the loop over the messages.
conversation(msgs, pw, calloc_ok) ==
    IF ~calloc_ok
    THEN [ret |-> PAM_BUF_ERR, published |-> FALSE, resp |-> <<>>,
          leaked |-> <<>>, panic |-> FALSE]
    ELSE ConvLoop(msgs, 1, pw, <<>>)

(***************************************************************************)
(* PAM: the environment list and its harvest.                              *)
(***************************************************************************)

\* The bytes of an environment string: a byte of a name or a value, the
\* separator, and a byte that is not valid UTF-8.
EnvBytes == {"A", "=", "xFF"}

\* The longest environment string.
MaxEnvLen == 3

\* The longest environment list.
MaxEnvEntries == 2

\* The position of the first `ch` in str, 0 when there is none.
Find(str, ch) ==
    IF \E i \in DOMAIN str : str[i] = ch
    THEN CHOOSE i \in DOMAIN str :
            str[i] = ch /\ \A j \in 1..(i - 1) : str[j] # ch
    ELSE 0

\* The strings pam_getenvlist returns: "name=value" with a name that is not
\* empty.
EnvStrings ==
    {str \in UNION {[1..n -> EnvBytes] : n \in 2..MaxEnvLen} :
        Find(str, "=") > 1}

\* The name and the value PAM exports with the string.
ExportedPair(str) ==
    << SubSeq(str, 1, Find(str, "=") - 1),
       SubSeq(str, Find(str, "=") + 1, Len(str)) >>

\* The lists pam_getenvlist returns: no name occurs twice.
EnvLists ==
    {list \in UNION {[1..n -> EnvStrings] : n \in 0..MaxEnvEntries} :
        \A i, j \in DOMAIN list :
            ExportedPair(list[i])[1] = ExportedPair(list[j])[1] => i = j}

\* CStr::to_string_lossy: a byte that is not valid UTF-8 becomes U+FFFD.
to_string_lossy(bytes) ==
    [i \in DOMAIN bytes |-> IF bytes[i] = "xFF" THEN "U+FFFD" ELSE bytes[i]]

\* str::split_once: the parts before and after the first `ch`, if any.
split_once(str, ch) ==
    IF Find(str, ch) = 0 THEN None
    ELSE Some(<< SubSeq(str, 1, Find(str, ch) - 1),
                 SubSeq(str, Find(str, ch) + 1, Len(str)) >>)

\* HashMap::new()
EmptyMap == [key \in {} |-> <<>>]

\* HashMap::insert: a later value replaces an earlier one of the same key.
insert(map, key, val) ==
    [k \in DOMAIN map \cup {key} |-> IF k = key THEN val ELSE map[k]]

RECURSIVE HarvestFrom(_, _, _)
\* The while loop over the list from entry i on.
HarvestFrom(list, i, map) ==
    IF i > Len(list) THEN map
    ELSE LET kv == split_once(to_string_lossy(list[i]), "=") IN
         HarvestFrom(list, i + 1,
                     IF kv = None THEN map
                     ELSE insert(map, kv[1][1], kv[1][2]))

\* pam_env as open_session builds it from pam_getenvlist.
Harvest(env_list) == HarvestFrom(env_list, 1, EmptyMap)

\* AuthUserInfo::get_env: `HashMap::new()`, whatever the AuthUserInfo holds.
get_env(self) == EmptyMap

\* The key/value pairs of a map.
Pairs(map) == {<< k, map[k] >> : k \in DOMAIN map}

(***************************************************************************)
(* PAM: open_session.                                                      *)
(***************************************************************************)

\* The four PAM calls made on the handle; the callback can run inside each.
PamSteps ==
    {"pam_authenticate", "pam_acct_mgmt", "pam_setcred", "pam_open_session"}

\* What uzers::get_user_by_name and the paths of the user can turn out as.
Lookups == {"found", "none", "home_invalid", "shell_invalid"}

\* The arguments of open_session, with the environment list the PAM stack
\* holds for the transaction; lookup is filled in when the name service has
\* answered.
OpenSessionInputs ==
    [username_nul : BOOLEAN, service_nul : BOOLEAN, password : Passwords,
     lookup : {"not yet"}, env_list : {pam_in.env_list}]

LogEntry(call, ret) == [call |-> call, ret |-> ret]

\* A drop that releases the Box<ConvData> before the handle is ended.
PamAuthenticatorDrop_ContextFirst(h, status, log) ==
    IF h # "null"
    THEN log \o << LogEntry("drop(conv_data)", 0),
                  LogEntry("pam_end", status) >>
    ELSE Append(log, LogEntry("drop(conv_data)", 0))

\* Drop for PamAuthenticator, then the drop of its fields: pam_end on a
\* handle that is not null, and the release of the Box<ConvData>.
PamAuthenticatorDrop(h, status, log) ==
    IF h # "null"
    THEN log \o << LogEntry("pam_end", status),
                  LogEntry("drop(conv_data)", 0) >>
    ELSE Append(log, LogEntry("drop(conv_data)", 0))

\* A clear that is left out.
ClearPassword_Keep(pw) == pw

\* `if let Ok(mut guard) = ...lock() { *guard = None; }`
ClearPassword(pw) ==
    IF pw.poisoned THEN pw ELSE [pw EXCEPT !.value = None]

\* A check of the account step that is left out.
StepFailed_AcctIgnored(step, status) ==
    step # "pam_acct_mgmt" /\ status # PAM_SUCCESS

\* `if auth.last_status != PAM_SUCCESS` after each call.
StepFailed(step, status) == status # PAM_SUCCESS

\* A Result of open_session: "Ok" or the variant of AuthenticationError,
\* with the code that Other carries (0 for every other variant).
Result(tag, code) == [tag |-> tag, code |-> code]

\* A pam_setcred fallback that reports every unlisted code as unavailable
\* credentials.
StepError_OtherCoerced(step, status) ==
    CASE step = "pam_start" -> Result("PamService", 0)
      [] step \in {"pam_authenticate", "pam_acct_mgmt"} ->
            Result("AccountValidation", 0)
      [] step = "pam_setcred" ->
            IF status = PAM_CRED_EXPIRED THEN Result("CredExpired", 0)
            ELSE Result("CredUnavailable", 0)
      [] step = "pam_open_session" -> Result("SessionOpen", 0)

\* A table with the two credential variants exchanged.
StepError_CredSwapped(step, status) ==
    CASE step = "pam_start" -> Result("PamService", 0)
      [] step \in {"pam_authenticate", "pam_acct_mgmt"} ->
            Result("AccountValidation", 0)
      [] step = "pam_setcred" ->
            IF status = PAM_CRED_UNAVAIL THEN Result("CredExpired", 0)
            ELSE IF status = PAM_CRED_EXPIRED
            THEN Result("CredUnavailable", 0)
            ELSE Result("Other", status)
      [] step = "pam_open_session" -> Result("SessionOpen", 0)

\* The error open_session returns when `step` ended with the failing status.
StepError(step, status) ==
    CASE step = "pam_start" -> Result("PamService", 0)
      [] step \in {"pam_authenticate", "pam_acct_mgmt"} ->
            Result("AccountValidation", 0)
      [] step = "pam_setcred" ->
            IF status = PAM_CRED_UNAVAIL THEN Result("CredUnavailable", 0)
            ELSE IF status = PAM_CRED_EXPIRED THEN Result("CredExpired", 0)
            ELSE Result("Other", status)
      [] step = "pam_open_session" -> Result("SessionOpen", 0)

\* A lookup whose absent user is taken for a found one.
LookupResult_AssumeFound(lookup) ==
    CASE lookup \in {"found", "none"} -> Result("Ok", 0)
      [] lookup = "home_invalid"  -> Result("HomeDirInvalidUtf8", 0)
      [] lookup = "shell_invalid" -> Result("ShellInvalidUtf8", 0)

\* The rest of open_session once pam_open_session succeeded: the name
\* service's answer decides between the AuthUserInfo and an error.
LookupResult(lookup) ==
    CASE lookup = "found"         -> Result("Ok", 0)
      [] lookup = "none"          -> Result("UsernameNotFound", 0)
      [] lookup = "home_invalid"  -> Result("HomeDirInvalidUtf8", 0)
      [] lookup = "shell_invalid" -> Result("ShellInvalidUtf8", 0)

\* open_session returns `res` with `log` the calls made; an Err drops the
\* PamAuthenticator, an Ok moves it into the AuthUserInfo.
OpenSessionReturn(res, status, log) ==
    /\ pam_pc' = "returned"
    /\ auth_result' = res
    /\ last_status' = status
    /\ IF res.tag = "Ok"
       THEN /\ pam_log' = log
            /\ UNCHANGED <<handle, conv_data>>
       ELSE /\ pam_log' = PamAuthenticatorDrop(handle, status, log)
            /\ handle' = IF handle = "live" THEN "ended" ELSE handle
            /\ conv_data' = "freed"

\* open_session from its entry to the call of pam_authenticate.
OpenSessionStart ==
    /\ pam_pc = "idle"
    /\ \E inp \in OpenSessionInputs, ret \in StatusCodes :
          /\ pam_in' = inp
          /\ IF inp.username_nul \/ inp.service_nul
             THEN /\ pam_pc' = "returned"
                  /\ auth_result' = IF inp.username_nul
                                    THEN Result("UsernameNotFound", 0)
                                    ELSE Result("PamService", 0)
                  /\ UNCHANGED <<handle, last_status, password, conv_data,
                                 pam_log>>
             ELSE /\ password' = [value |-> Some(inp.password),
                                  poisoned |-> FALSE]
                  /\ last_status' = ret
                  /\ IF StepFailed("pam_start", ret)
                     THEN /\ pam_pc' = "returned"
                          /\ auth_result' = StepError("pam_start", ret)
                          /\ handle' = "null"
                          /\ conv_data' = "freed"
                          /\ pam_log' = PamAuthenticatorDrop("null", ret,
                                            << LogEntry("pam_start", ret) >>)
                     ELSE /\ pam_pc' = "pam_authenticate"
                          /\ handle' = "live"
                          /\ conv_data' = "allocated"
                          /\ pam_log' = << LogEntry("pam_start", ret) >>
                          /\ UNCHANGED auth_result
    /\ UNCHANGED <<last_conv, pam_env, spawnVars,
                   xVars, uiVars, pureVars, envVars>>

\* The module running inside a PAM call invokes the conversation callback.
\* A panic of the callback either aborts the process (a panic cannot leave
\* an extern "C" function) or, on builds where it unwinds through the
\* library, poisons the Mutex and unwinds open_session, dropping `auth`.
Conversation ==
    /\ pam_pc \in PamSteps
    /\ \E msgs \in MsgArrays, calloc_ok \in BOOLEAN :
          LET r == conversation(msgs, password, calloc_ok) IN
          /\ last_conv' = [during |-> pam_pc, msgs |-> msgs, ret |-> r.ret,
                           published |-> r.published, resp |-> r.resp,
                           leaked |-> r.leaked, panic |-> r.panic]
          /\ IF r.panic
             THEN \E unwinds \in BOOLEAN :
                     IF unwinds
                     THEN /\ pam_pc' = "panicked"
                          /\ password' = [password EXCEPT !.poisoned = TRUE]
                          /\ pam_log' = PamAuthenticatorDrop(handle,
                                            last_status, pam_log)
                          /\ handle' = "ended"
                          /\ conv_data' = "freed"
                     ELSE /\ pam_pc' = "aborted"
                          /\ UNCHANGED <<password, pam_log, handle,
                                         conv_data>>
             ELSE UNCHANGED <<pam_pc, password, pam_log, handle, conv_data>>
    /\ UNCHANGED <<pam_in, last_status, auth_result, pam_env, spawnVars,
                   xVars, uiVars, pureVars, envVars>>

\* pam_authenticate returns; on success the password is cleared and
\* pam_acct_mgmt is called.
PamAuthenticateReturn ==
    /\ pam_pc = "pam_authenticate"
    /\ \E status \in StatusCodes :
          LET log == Append(pam_log, LogEntry("pam_authenticate", status)) IN
          IF StepFailed("pam_authenticate", status)
          THEN /\ OpenSessionReturn(StepError("pam_authenticate", status),
                                    status, log)
               /\ UNCHANGED password
          ELSE /\ password' = ClearPassword(password)
               /\ pam_pc' = "pam_acct_mgmt"
               /\ last_status' = status
               /\ pam_log' = log
               /\ UNCHANGED <<handle, conv_data, auth_result>>
    /\ UNCHANGED <<pam_in, last_conv, pam_env, spawnVars,
                   xVars, uiVars, pureVars, envVars>>

\* pam_acct_mgmt returns; on success pam_setcred is called.
PamAcctMgmtReturn ==
    /\ pam_pc = "pam_acct_mgmt"
    /\ \E status \in StatusCodes :
          LET log == Append(pam_log, LogEntry("pam_acct_mgmt", status)) IN
          IF StepFailed("pam_acct_mgmt", status)
          THEN OpenSessionReturn(StepError("pam_acct_mgmt", status),
                                 status, log)
          ELSE /\ pam_pc' = "pam_setcred"
               /\ last_status' = status
               /\ pam_log' = log
               /\ UNCHANGED <<handle, conv_data, auth_result>>
    /\ UNCHANGED <<pam_in, password, last_conv, pam_env, spawnVars,
                   xVars, uiVars, pureVars, envVars>>

\* pam_setcred returns; on success pam_open_session is called.
PamSetcredReturn ==
    /\ pam_pc = "pam_setcred"
    /\ \E status \in StatusCodes :
          LET log == Append(pam_log, LogEntry("pam_setcred", status)) IN
          IF StepFailed("pam_setcred", status)
          THEN OpenSessionReturn(StepError("pam_setcred", status),
                                 status, log)
          ELSE /\ pam_pc' = "pam_open_session"
               /\ last_status' = status
               /\ pam_log' = log
               /\ UNCHANGED <<handle, conv_data, auth_result>>
    /\ UNCHANGED <<pam_in, password, last_conv, pam_env, spawnVars,
                   xVars, uiVars, pureVars, envVars>>

\* pam_open_session returns; on success pam_getenvlist is called.
PamOpenSessionReturn ==
    /\ pam_pc = "pam_open_session"
    /\ \E status \in StatusCodes :
          LET log == Append(pam_log, LogEntry("pam_open_session", status)) IN
          IF StepFailed("pam_open_session", status)
          THEN OpenSessionReturn(StepError("pam_open_session", status),
                                 status, log)
          ELSE /\ pam_pc' = "pam_getenvlist"
               /\ last_status' = status
               /\ pam_log' = log
               /\ UNCHANGED <<handle, conv_data, auth_result>>
    /\ UNCHANGED <<pam_in, password, last_conv, pam_env, spawnVars, xVars,
                   uiVars, pureVars, envVars>>

\* pam_getenvlist returns the environment list, which is harvested; the
\* user is looked up and open_session returns.  Only the AuthUserInfo keeps
\* the map.
PamGetenvlistReturn ==
    /\ pam_pc = "pam_getenvlist"
    /\ \E lookup \in Lookups :
          /\ OpenSessionReturn(LookupResult(lookup), last_status,
                Append(pam_log, LogEntry("pam_getenvlist", PAM_SUCCESS)))
          /\ pam_in' = [pam_in EXCEPT !.lookup = lookup]
          /\ pam_env' = IF LookupResult(lookup).tag = "Ok"
                        THEN Harvest(pam_in.env_list) ELSE pam_env
    /\ UNCHANGED <<password, last_conv, spawnVars, xVars, uiVars, pureVars,
                   envVars>>

\* The AuthUserInfo that open_session returned goes out of scope.
AuthUserInfoDrop ==
    /\ pam_pc = "returned"
    /\ auth_result.tag = "Ok"
    /\ pam_pc' = "dropped"
    /\ pam_log' = PamAuthenticatorDrop(handle, last_status, pam_log)
    /\ handle' = IF handle = "live" THEN "ended" ELSE handle
    /\ conv_data' = "freed"
    /\ UNCHANGED <<pam_in, last_status, password, last_conv, auth_result,
                   pam_env, spawnVars,
                   xVars, uiVars, pureVars, envVars>>

PamIdle ==
    /\ pam_pc = "idle"
    /\ pam_in = [username_nul |-> FALSE, service_nul |-> FALSE,
                 password |-> [text |-> "hunter2", nul |-> FALSE],
                 lookup |-> "not yet",
                 env_list |-> << <<"A", "=", "A">> >>]
    /\ handle = "null"
    /\ last_status = PAM_SUCCESS
    /\ password = [value |-> None, poisoned |-> FALSE]
    /\ conv_data = "none"
    /\ pam_log = <<>>
    /\ last_conv = [during |-> "none", msgs |-> <<>>, ret |-> PAM_SUCCESS,
                    published |-> FALSE, resp |-> <<>>, leaked |-> <<>>,
                    panic |-> FALSE]
    /\ auth_result = Result("none", 0)
    /\ pam_env = EmptyMap

(***************************************************************************)
(* setup_x: the start of the X server and the wait for its SIGUSR1.        *)
(***************************************************************************)

\* `let poll_interval = 100;`, in milliseconds.
poll_interval == 100

\* remaining_time when xserver_timeout_secs is 0.
PracticallyInfinite == 1000000

\* The values of config.x11.xserver_timeout_secs tried.
TimeoutSecs == {0, 1}

\* The clock stops advancing here.
MaxClock == 1200

\* The time a poll can take, in milliseconds.
ClockSteps == {0, 50, 100}

\* What the steps before the signal set-up find: all well, or the error of
\* the first step that fails.
PreOutcomes ==
    {"ok", "DisplayEnvVar", "VTNREnvVar", "HomeEnvVar", "FillingXAuth",
     "InvalidUTF8Path"}

\* The users whose X server is started.
XUserInfos ==
    {u \in AuthUserInfos : u.uid # ROOT /\ u.all_gids = {u.primary_gid}}

XInputs ==
    [pre : PreOutcomes, xserver_timeout_secs : TimeoutSecs, do_log : BOOLEAN,
     user_info : XUserInfos]

\* An X server command that is given the privilege drop of the session.
XServerCommand_Dropped(inp) ==
    [lower_command_permissions_to_user(CommandNew("system_shell"),
                                       inp.user_info)
        EXCEPT !.args = << "-c", "xserver_path display vtNN" >>]

\* The command of the X server: the system shell with "-c" and the command
\* line of the server; no pre_exec closure is registered.
XServerCommand(inp) ==
    [CommandNew("system_shell")
        EXCEPT !.args = << "-c", "xserver_path display vtNN" >>]

\* A block that is left out.
BlockSignal_Noop(mask) == mask

\* pthread_sigmask(SIG_BLOCK, {SIGUSR1}).
BlockSignal(mask) == mask \cup {SIGUSR1}

\* pthread_sigmask(SIG_UNBLOCK, {SIGUSR1}).
UnblockSignal(mask) == mask \ {SIGUSR1}

\* start_time.elapsed().unwrap_or(Duration::ZERO).as_millis()
Elapsed(now, start) == IF now >= start THEN now - start ELSE 0

\* A remaining time that takes the seconds for tenths of a second.
RemainingTime_Short(secs, elapsed) ==
    IF secs = 0 THEN PracticallyInfinite
    ELSE LET total_ms == secs * 100 IN
         IF elapsed >= total_ms THEN 0 ELSE total_ms - elapsed

\* remaining_time of the iteration.
RemainingTime(secs, elapsed) ==
    IF secs = 0 THEN PracticallyInfinite
    ELSE LET total_ms == secs * 1000 IN
         IF elapsed >= total_ms THEN 0 ELSE total_ms - elapsed

\* A poll that waits for all the time that remains.
EffectiveTimeout_Whole(remaining) == remaining

\* effective_timeout of the iteration.
EffectiveTimeout(remaining) ==
    IF poll_interval <= remaining THEN poll_interval ELSE remaining

\* The thread unblocks SIGUSR1: a pending SIGUSR1 is delivered at once.
Unblock ==
    /\ sigmask' = UnblockSignal(sigmask)
    /\ pending' = IF SIGUSR1 \in UnblockSignal(sigmask) THEN pending
                  ELSE pending \ {SIGUSR1}
    /\ usr1' = IF SIGUSR1 \in pending /\ SIGUSR1 \notin UnblockSignal(sigmask)
               THEN "delivered" ELSE usr1

\* setup_x returns `res`; the SignalFd, if there is one, is closed.
XReturn(res) ==
    /\ x_pc' = "returned"
    /\ x_result' = res
    /\ signal_fd' = IF signal_fd = "open" THEN "closed" ELSE signal_fd

\* setup_x from its entry to the signal set-up: the environment variables,
\* the .Xauthority file and its path.
XBegin ==
    /\ x_pc = "idle"
    /\ \E inp \in XInputs :
          /\ x_in' = inp
          /\ IF inp.pre = "ok"
             THEN x_pc' = "block" /\ UNCHANGED <<x_result, signal_fd>>
             ELSE XReturn(inp.pre)
    /\ UNCHANGED <<sigmask, mask0, pending, usr1, clock, start_time,
                   poll_timeout, x_events, spawnVars, pamVars,
                   uiVars, pureVars, envVars>>

\* SIGUSR1 is blocked in the calling thread.
XBlock ==
    /\ x_pc = "block"
    /\ sigmask' = BlockSignal(sigmask)
    /\ x_pc' = "signalfd"
    /\ UNCHANGED <<x_events, x_in, mask0, signal_fd, pending, usr1, clock,
                   start_time,
                   poll_timeout, x_result, spawnVars, pamVars,
                   uiVars, pureVars, envVars>>

\* SignalFd::new: on an error setup_x returns through `?`.
XSignalFd ==
    /\ x_pc = "signalfd"
    /\ \E ok \in BOOLEAN :
          IF ok
          THEN signal_fd' = "open" /\ x_pc' = "spawn" /\ UNCHANGED x_result
          ELSE XReturn("SignalFdCreation")
    /\ UNCHANGED <<x_events, x_in, sigmask, mask0, pending, usr1, clock,
                   start_time,
                   poll_timeout, spawnVars, pamVars, uiVars, pureVars, envVars>>

\* LemursChild::spawn forks the X server child.
XSpawn ==
    /\ x_pc = "spawn"
    /\ child' = LemursChildSpawn(XServerCommand(x_in), x_in.do_log,
                                 LauncherCreds, sigmask)
    /\ x_pc' = "spawning"
    /\ UNCHANGED <<x_events, x_in, sigmask, mask0, signal_fd, pending,
                   usr1, clock,
                   start_time, poll_timeout, x_result, spawner, pamVars,
                   uiVars, pureVars, envVars>>

\* LemursChild::spawn returns: on an error the signal is unblocked and
\* setup_x returns, else the clock is sampled and the loop entered.
XSpawnReturn ==
    /\ x_pc = "spawning"
    /\ child.pc \in {"running", "exited", "aborted"}
    /\ IF child.pc = "aborted"
       THEN /\ Unblock
            /\ XReturn("XServerStart")
            /\ UNCHANGED start_time
       ELSE /\ start_time' = clock
            /\ x_pc' = "loop"
            /\ UNCHANGED <<sigmask, pending, usr1, x_result, signal_fd>>
    /\ UNCHANGED <<x_events, x_in, mask0, clock, poll_timeout, spawner,
                   child, pamVars, uiVars, pureVars, envVars>>

\* The timeout test of the loop head, with a zero timeout read as a
\* deadline of zero milliseconds.
TimedOut_NoUnbounded(secs, elapsed) == elapsed >= secs * 1000

\* A timeout test that gives way to a pending signal.
TimedOut_UnlessSignal(secs, elapsed) ==
    RemainingTime(secs, elapsed) = 0 /\ secs # 0 /\ pending = {}

\* `remaining_time == 0 && config.x11.xserver_timeout_secs != 0`
TimedOut(secs, elapsed) == RemainingTime(secs, elapsed) = 0 /\ secs # 0

\* A liveness check that never sees the child exit.
TryWait_Never(c) == None

\* child.try_wait().unwrap_or(None): the exit status of a child that has
\* exited and is not yet reaped.
TryWait(c) == IF c.pc = "exited" THEN Some("exit_status") ELSE None

\* A kill that is left out.
KillChild_Noop(c) == c

\* child.kill(): a running child is killed, an exited one is left as it is.
KillChild(c) == IF c.pc = "running" THEN [c EXCEPT !.pc = "killed"] ELSE c

\* The clean-up of the return paths, with a kill on the poll error too.
ChildAtReturn_KillOnError(res, c) ==
    CASE res \in {"XServerTimeout", "PollError"} -> KillChild(c)
      [] res = "XServerPrematureExit" -> [c EXCEPT !.pc = "reaped"]
      [] OTHER -> c

\* What the return paths of the loop do to the child: the timeout kills it,
\* the premature exit has reaped it, every other path leaves it alone.
ChildAtReturn(res, c) ==
    CASE res = "XServerTimeout" -> KillChild(c)
      [] res = "XServerPrematureExit" -> [c EXCEPT !.pc = "reaped"]
      [] OTHER -> c

\* No signal, no exit and no failed read yet.
NoEvents ==
    [sent_at |-> -1, sent_pc |-> "never", exit_at |-> -1, exit_pc |-> "never",
     read_err |-> FALSE, last_poll |-> "none"]

\* The errors of libc::poll tried.
PollErrnos == {"EINTR", "EBADF"}

\* A poll that every signal makes fail for good.
Interrupted_Never(err) == FALSE

\* err.kind() == std::io::ErrorKind::Interrupted
Interrupted(err) == err = "EINTR"

\* A read whose failure leaves the loop as well.
AfterRead_Break(read_ok) == "ready"

\* Where the match on signal_fd.read_signal() goes: the break for the
\* siginfo of SIGUSR1, the liveness check for an empty or a failed read.
AfterRead(read_ok) == IF read_ok THEN "ready" ELSE "try_wait"

\* The head of the loop: the remaining time, and the timeout.
XLoopTop ==
    /\ x_pc = "loop"
    /\ LET elapsed == Elapsed(clock, start_time)
           remaining_time == RemainingTime(x_in.xserver_timeout_secs, elapsed)
       IN
       IF TimedOut(x_in.xserver_timeout_secs, elapsed)
       THEN /\ Unblock
            /\ child' = ChildAtReturn("XServerTimeout", child)
            /\ XReturn("XServerTimeout")
            /\ UNCHANGED poll_timeout
       ELSE /\ poll_timeout' = EffectiveTimeout(remaining_time)
            /\ x_pc' = "poll"
            /\ UNCHANGED <<sigmask, pending, usr1, child, x_result,
                           signal_fd>>
    /\ UNCHANGED <<x_events, x_in, mask0, clock, start_time, spawner,
                   pamVars, uiVars, pureVars, envVars>>

\* libc::poll returns, and what follows up to the liveness check.
XPoll ==
    /\ x_pc = "poll"
    /\ \/ \* POLLIN: the signal is read from the SignalFd, or the read fails
          /\ SIGUSR1 \in pending
          /\ signal_fd = "open"
          /\ \E dt \in ClockSteps, read_ok \in BOOLEAN :
                /\ dt <= poll_timeout
                /\ clock + dt <= MaxClock
                /\ clock' = clock + dt
                /\ x_pc' = AfterRead(read_ok)
                /\ IF read_ok
                   THEN /\ pending' = pending \ {SIGUSR1}
                        /\ usr1' = "read"
                        /\ x_events' = [x_events EXCEPT
                                          !.last_poll = "POLLIN"]
                   ELSE /\ x_events' = [x_events EXCEPT
                                          !.read_err = TRUE,
                                          !.last_poll = "POLLIN"]
                        /\ UNCHANGED <<pending, usr1>>
          /\ UNCHANGED <<sigmask, x_result, signal_fd, child>>
       \/ \* the timeout of the poll passes with nothing to read
          /\ SIGUSR1 \notin pending
          /\ clock + poll_timeout <= MaxClock
          /\ clock' = clock + poll_timeout
          /\ x_pc' = "try_wait"
          /\ x_events' = [x_events EXCEPT !.last_poll = "timeout"]
          /\ UNCHANGED <<sigmask, pending, usr1, x_result, signal_fd, child>>
       \/ \* poll fails: interrupted by another signal, or any other error
          \E err \in PollErrnos :
             /\ x_events' = [x_events EXCEPT !.last_poll = err]
             /\ IF Interrupted(err)
                THEN /\ SIGUSR1 \notin pending
                     /\ \E dt \in ClockSteps :
                           /\ dt <= poll_timeout
                           /\ clock + dt <= MaxClock
                           /\ clock' = clock + dt
                     /\ x_pc' = "try_wait"
                     /\ UNCHANGED <<sigmask, pending, usr1, x_result,
                                    signal_fd, child>>
                ELSE /\ Unblock
                     /\ child' = ChildAtReturn("PollError", child)
                     /\ XReturn("PollError")
                     /\ UNCHANGED clock
    /\ UNCHANGED <<x_in, mask0, start_time, poll_timeout, spawner, pamVars,
                   uiVars, pureVars, envVars>>

\* child.try_wait(): an exited child ends the wait.
XTryWait ==
    /\ x_pc = "try_wait"
    /\ IF TryWait(child) # None
       THEN /\ child' = ChildAtReturn("XServerPrematureExit", child)
            /\ Unblock
            /\ XReturn("XServerPrematureExit")
       ELSE /\ x_pc' = "loop"
            /\ UNCHANGED <<child, sigmask, pending, usr1, x_result,
                           signal_fd>>
    /\ UNCHANGED <<x_events, x_in, mask0, clock, start_time, poll_timeout,
                   spawner, pamVars, uiVars, pureVars, envVars>>

\* After the loop: the signal is unblocked and the child returned.
XReady ==
    /\ x_pc = "ready"
    /\ Unblock
    /\ child' = ChildAtReturn("Ok", child)
    /\ XReturn("Ok")
    /\ UNCHANGED <<x_events, x_in, mask0, clock, start_time, poll_timeout,
                   spawner, pamVars, uiVars, pureVars, envVars>>

\* The X server sends SIGUSR1 to its parent: it stays pending while the
\* thread blocks it, and is delivered to the process otherwise.
XChildSignal ==
    /\ child.pc = "running"
    /\ usr1 = "unsent"
    /\ IF SIGUSR1 \in sigmask
       THEN pending' = pending \cup {SIGUSR1} /\ usr1' = "sent"
       ELSE usr1' = "delivered" /\ UNCHANGED pending
    /\ x_events' = [x_events EXCEPT !.sent_at = clock, !.sent_pc = x_pc]
    /\ UNCHANGED <<x_pc, x_in, sigmask, mask0, signal_fd, clock, start_time,
                   poll_timeout, x_result, spawnVars, pamVars,
                   uiVars, pureVars, envVars>>

\* The X server exits by itself.
XChildExit ==
    /\ child.pc = "running"
    /\ child' = [child EXCEPT !.pc = "exited"]
    /\ x_events' = [x_events EXCEPT !.exit_at = clock, !.exit_pc = x_pc]
    /\ UNCHANGED <<x_pc, x_in, sigmask, mask0, signal_fd, pending, usr1,
                   clock, start_time, poll_timeout, x_result, spawner,
                   pamVars, uiVars, pureVars, envVars>>

\* The system clock, which SystemTime::now() reads, is set back while
\* setup_x waits.
XClockSet ==
    /\ x_pc \in {"loop", "poll", "try_wait"}
    /\ \E dt \in ClockSteps \ {0} :
          /\ clock - dt >= 0
          /\ clock' = clock - dt
    /\ UNCHANGED <<x_pc, x_in, sigmask, mask0, signal_fd, pending, usr1,
                   start_time, poll_timeout, x_result, x_events, spawnVars,
                   pamVars, uiVars, pureVars, envVars>>

XIdle ==
    /\ x_pc = "idle"
    /\ x_in = [pre |-> "ok", xserver_timeout_secs |-> 0, do_log |-> FALSE,
               user_info |-> [uid |-> 1000, primary_gid |-> 100,
                              all_gids |-> {100}, shell |-> "/bin/bash"]]
    /\ sigmask = {}
    /\ mask0 = {}
    /\ signal_fd = "none"
    /\ pending = {}
    /\ usr1 = "unsent"
    /\ clock = 0
    /\ start_time = 0
    /\ poll_timeout = 0
    /\ x_result = "none"
    /\ x_events = NoEvents

(***************************************************************************)
(* LoginForm::run: the spawned thread that reads the keys and starts the   *)
(* session, and the drawing loop of the calling thread.                    *)
(***************************************************************************)

UIThreadRequests == {"Redraw", "DisableTui", "EnableTui", "StopDrawing"}

InputModes == {"Switcher", "Username", "Password", "Normal"}

\* InputMode::next
next(mode, skip_switcher) ==
    CASE mode = "Normal"   -> IF skip_switcher THEN "Username" ELSE "Switcher"
      [] mode = "Switcher" -> "Username"
      [] mode = "Username" -> "Password"
      [] mode = "Password" -> "Password"

\* InputMode::prev
prev(mode, skip_switcher) ==
    CASE mode = "Normal"   -> "Normal"
      [] mode = "Switcher" -> "Normal"
      [] mode = "Username" -> IF skip_switcher THEN "Normal" ELSE "Switcher"
      [] mode = "Password" -> "Username"

\* The key events of the model: Enter, Up, Esc, a function key and a
\* character key that no arm of the match names.
KeyCodes == {"Enter", "Up", "Esc", "F", "Char"}

\* The number of key events the user presses.
MaxKeys == 3

\* LoginFormStatusMessage: None, or Some of an info or an error message.
InfoStatusMessages == {"Authenticating", "LoggingIn"}

ErrorStatusMessages ==
    {"NoGraphicalEnvironment", "AuthenticationError",
     "FailedGraphicalEnvironment"}

FocusBehaviours ==
    {"FirstNonCached", "NoFocus", "Environment", "Username", "Password"}

SwitcherVisibilities == {"Visible", "Hidden", "Keybind"}

\* The configuration and the cache LoginForm::run starts from.
UiConfigs ==
    [focus_behaviour : FocusBehaviours,
     switcher_visibility : SwitcherVisibilities,
     username_cached : BOOLEAN, environment_cached : BOOLEAN]

\* SwitcherWidget::hidden of a new widget: a switcher that is not
\* configured as visible starts hidden.
hidden(config) == config.switcher_visibility # "Visible"

\* The input mode LoginForm::run starts in.
InitialInputMode(config) ==
    CASE config.focus_behaviour = "FirstNonCached" ->
           IF config.username_cached /\ config.environment_cached
           THEN "Password"
           ELSE IF config.username_cached THEN "Username"
           ELSE IF config.switcher_visibility = "Visible" THEN "Switcher"
           ELSE "Username"
      [] config.focus_behaviour = "NoFocus" -> "Normal"
      [] config.focus_behaviour = "Environment" -> "Switcher"
      [] config.focus_behaviour = "Username" -> "Username"
      [] config.focus_behaviour = "Password" -> "Password"

\* What the spawned thread works with: the preview flag, its local
\* switcher_hidden, and the environment the switcher has selected (the
\* switcher is made of the list of get_envs, which is never empty).
UiInputs ==
    [preview : BOOLEAN, switcher_hidden : BOOLEAN,
     environment : {Some([kind |-> "Shell"])}]

\* The requests of the pre_environment hook, with the screen given up
\* before the last drawing.
pre_environment_DisableFirst == <<"DisableTui", "Redraw">>

\* The requests of the pre_environment hook.
pre_environment == <<"Redraw", "DisableTui">>

\* The requests of the pre_return hook.
pre_return == <<"EnableTui", "Redraw">>

\* An Esc key that stops the drawing whatever the preview flag.
EscInNormal_Always(preview) == <<"StopDrawing">>

\* The requests of the arm (KeyCode::Esc, InputMode::Normal, _).
EscInNormal(preview) == IF preview THEN <<"StopDrawing">> ELSE <<>>

\* A preview that skips the Authenticating status.
PreviewStatus_Skip(pc) ==
    IF pc = "sleep2" THEN None ELSE Some("LoggingIn")

\* The status the preview sets when it leaves the position pc.
PreviewStatus(pc) ==
    CASE pc = "read"   -> Some("Authenticating")
      [] pc = "sleep1" -> Some("LoggingIn")
      [] pc = "sleep2" -> None

\* Sender::send on the channel of std::sync::mpsc::channel(): the request
\* is put behind the ones in flight, whatever their number.
send(ch, request) == Append(ch, request)

\* Receiver::recv takes the oldest request in flight.
recv_Newest(ch) ==
    [request |-> ch[Len(ch)], rest |-> SubSeq(ch, 1, Len(ch) - 1)]

recv(ch) == [request |-> Head(ch), rest |-> Tail(ch)]

RECURSIVE SendEach(_, _)
SendEach(ch, requests) ==
    IF requests = <<>> THEN ch
    ELSE SendEach(send(ch, Head(requests)), Tail(requests))

\* send_ui_request, for the requests of one step of the thread: a send to a
\* channel whose receiver is gone returns Err, which is only logged.
send_ui_request(requests) ==
    IF draw_pc = "running"
    THEN /\ chan' = SendEach(chan, requests)
         /\ sent' = sent \o requests
    ELSE UNCHANGED <<chan, sent>>

\* The first arm of the match on the key: (KeyCode::Enter,
\* InputMode::Password, _).
IsLoginKey_AnyEnter(code, mode) == code = "Enter"

IsLoginKey(code, mode) == code = "Enter" /\ mode = "Password"

\* The positions at which the spawned thread is inside start_session.
InSession == {"authenticate", "launch", "wait"}

\* The user presses a key: the terminal holds it until event::read takes it.
UiType ==
    /\ ui_pc # "idle"
    /\ Len(key_log) + Len(keys) < MaxKeys
    /\ \E code \in KeyCodes : keys' = Append(keys, code)
    /\ UNCHANGED <<ui_pc, ui_in, input_mode, status_message, chan, draw_pc,
                   sent, handled, key_log, attempts, spawnVars, pamVars,
                   xVars, pureVars, envVars>>

\* event::read returns a key and the match handles it, up to the next point
\* at which the thread blocks: event::read again, a sleep of the preview,
\* or the authentication inside start_session (whose pre_auth hook has
\* run).
UiKey ==
    /\ ui_pc = "read"
    /\ keys # <<>>
    /\ keys' = Tail(keys)
    /\ key_log' = Append(key_log, [code |-> Head(keys), mode |-> input_mode])
    /\ LET code == Head(keys)
           mode == input_mode
       IN  CASE IsLoginKey(code, mode) /\ ui_in.preview ->
                  /\ status_message' = PreviewStatus(ui_pc)
                  /\ send_ui_request(<<"Redraw">>)
                  /\ ui_pc' = "sleep1"
                  /\ UNCHANGED <<input_mode, attempts>>
             [] IsLoginKey(code, mode) /\ ~ui_in.preview
                  /\ ui_in.environment = None ->
                  /\ status_message' = Some("NoGraphicalEnvironment")
                  /\ send_ui_request(<<"Redraw", "Redraw">>)
                  /\ UNCHANGED <<ui_pc, input_mode, attempts>>
             [] IsLoginKey(code, mode) /\ ~ui_in.preview
                  /\ ui_in.environment # None ->
                  /\ attempts' = attempts + 1
                  /\ status_message' = Some("Authenticating")
                  /\ send_ui_request(<<"Redraw">>)
                  /\ ui_pc' = "authenticate"
                  /\ UNCHANGED input_mode
             [] ~IsLoginKey(code, mode) /\ code = "Up" ->
                  /\ input_mode' = prev(mode, ui_in.switcher_hidden)
                  /\ send_ui_request(<<"Redraw">>)
                  /\ UNCHANGED <<ui_pc, status_message, attempts>>
             [] ~IsLoginKey(code, mode) /\ code = "Enter" ->
                  /\ input_mode' = next(mode, ui_in.switcher_hidden)
                  /\ send_ui_request(<<"Redraw">>)
                  /\ UNCHANGED <<ui_pc, status_message, attempts>>
             [] code = "Esc" /\ mode = "Normal" ->
                  /\ send_ui_request(EscInNormal(ui_in.preview)
                                     \o <<"Redraw">>)
                  /\ UNCHANGED <<ui_pc, input_mode, status_message,
                                 attempts>>
             [] code = "Esc" /\ mode # "Normal" ->
                  /\ input_mode' = "Normal"
                  /\ send_ui_request(<<"Redraw">>)
                  /\ UNCHANGED <<ui_pc, status_message, attempts>>
             [] code = "F" ->
                  /\ \E now_hidden \in BOOLEAN :
                       /\ ui_in' = [ui_in EXCEPT
                                      !.switcher_hidden = now_hidden]
                       /\ input_mode' =
                            IF mode = "Switcher" /\ now_hidden
                            THEN next(mode, TRUE) ELSE mode
                  /\ send_ui_request(<<"Redraw">>)
                  /\ UNCHANGED <<ui_pc, status_message, attempts>>
             [] code = "Char" ->
                  /\ send_ui_request(<<"Redraw">>)
                  /\ UNCHANGED <<ui_pc, input_mode, status_message,
                                 attempts>>
    /\ Head(keys) # "F" => UNCHANGED ui_in
    /\ UNCHANGED <<draw_pc, handled, spawnVars, pamVars, xVars, pureVars,
                   envVars>>

\* The two sleeps of the preview end.
UiSleepReturn ==
    /\ ui_pc \in {"sleep1", "sleep2"}
    /\ status_message' = PreviewStatus(ui_pc)
    /\ IF ui_pc = "sleep1"
       THEN /\ send_ui_request(<<"Redraw">>)
            /\ ui_pc' = "sleep2"
       ELSE /\ send_ui_request(<<"Redraw", "Redraw">>)
            /\ ui_pc' = "read"
    /\ UNCHANGED <<ui_in, input_mode, keys, draw_pc, handled, key_log,
                   attempts, spawnVars, pamVars, xVars, pureVars, envVars>>

\* start_session: the authentication returns.  Its failure ends
\* start_session with AuthenticationError, and the thread goes back to
\* event::read; its success runs the pre_environment hook and starts the
\* environment.
UiAuthenticateReturn ==
    /\ ui_pc = "authenticate"
    /\ \E ok \in BOOLEAN :
         IF ok
         THEN /\ status_message' = Some("LoggingIn")
              /\ send_ui_request(pre_environment)
              /\ ui_pc' = "launch"
         ELSE /\ status_message' = Some("AuthenticationError")
              /\ send_ui_request(<<"Redraw", "Redraw">>)
              /\ ui_pc' = "read"
    /\ UNCHANGED <<ui_in, input_mode, keys, draw_pc, handled, key_log,
                   attempts, spawnVars, pamVars, xVars, pureVars, envVars>>

\* start_session: the start of the environment (with, for X11, the wait for
\* the X server) returns.  Its failure ends start_session with
\* EnvironmentStartError; its success leaves the thread waiting for the
\* session to end.
UiLaunchReturn ==
    /\ ui_pc = "launch"
    /\ \E ok \in BOOLEAN :
         IF ok
         THEN /\ ui_pc' = "wait"
              /\ UNCHANGED <<status_message, chan, sent>>
         ELSE /\ status_message' = Some("FailedGraphicalEnvironment")
              /\ send_ui_request(<<"EnableTui", "Redraw", "Redraw">>)
              /\ ui_pc' = "read"
    /\ UNCHANGED <<ui_in, input_mode, keys, draw_pc, handled, key_log,
                   attempts, spawnVars, pamVars, xVars, pureVars, envVars>>

\* start_session: the session ends, the pre_return hook runs and
\* start_session returns Ok.
UiWaitReturn ==
    /\ ui_pc = "wait"
    /\ status_message' = None
    /\ send_ui_request(pre_return \o <<"Redraw">>)
    /\ ui_pc' = "read"
    /\ UNCHANGED <<ui_in, input_mode, keys, draw_pc, handled, key_log,
                   attempts, spawnVars, pamVars, xVars, pureVars, envVars>>

\* One turn of the drawing loop: recv, then the match on the request.  A
\* failed draw is only logged; a failed disable_ui, enable_ui or clear
\* returns from run, as StopDrawing does.
UiDraw ==
    /\ draw_pc = "running"
    /\ chan # <<>>
    /\ LET r == recv(chan)
       IN  /\ chan' = r.rest
           /\ handled' = Append(handled, r.request)
           /\ \E ok \in BOOLEAN :
                draw_pc' =
                  CASE r.request = "Redraw" -> "running"
                    [] r.request \in {"DisableTui", "EnableTui"} ->
                         IF ok THEN "running" ELSE "stopped"
                    [] OTHER -> "stopped"
    /\ UNCHANGED <<ui_pc, ui_in, input_mode, status_message, keys, sent,
                   key_log, attempts, spawnVars, pamVars, xVars, pureVars,
                   envVars>>

\* LoginForm::run is not running.
UiIdle ==
    /\ ui_pc = "idle"
    /\ ui_in = [preview |-> FALSE, switcher_hidden |-> FALSE,
                environment |-> Some([kind |-> "Shell"])]
    /\ input_mode = "Normal"
    /\ status_message = None
    /\ keys = <<>>
    /\ chan = <<>>
    /\ draw_pc = "stopped"
    /\ sent = <<>>
    /\ handled = <<>>
    /\ key_log = <<>>
    /\ attempts = 0

(***************************************************************************)
(* PostLoginEnvironment::to_xdg_type and to_xdg_desktop.                   *)
(***************************************************************************)

EnvNames == {"", "sway", "Hyprland", "river", "niri", "labwc", "cosmic"}

ScriptPaths == {"/bin/sh", "/usr/bin/sway", "/etc/lemurs/wayland/river",
                "/etc/lemurs/wayland/niri"}

\* The values of PostLoginEnvironment the serialization is applied to.
XdgEnvironments ==
    {[kind |-> "Shell"]} \cup
    {[kind |-> "Wayland", script_path |-> p, env_name |-> n] :
        p \in ScriptPaths, n \in EnvNames}

to_xdg_type_Fixed(self) == "tty"

to_xdg_type(self) ==
    CASE self.kind = "Shell"   -> "tty"
      [] self.kind = "Wayland" -> "wayland"

to_xdg_desktop(self) ==
    CASE self.kind = "Wayland" -> Some(self.env_name)
      [] self.kind = "Shell"   -> None

\* The serialization functions that have been called for the value.
XdgFunctions == {"to_xdg_type", "to_xdg_desktop"}

XdgType ==
    /\ xdg.pc = "built"
    /\ "to_xdg_type" \notin xdg.called
    /\ xdg' = [xdg EXCEPT !.called = @ \cup {"to_xdg_type"},
                          !.xdg_type = to_xdg_type(xdg.self)]
    /\ UNCHANGED <<cli, spawnVars, pamVars, xVars, uiVars,
                   envVars>>

XdgDesktop ==
    /\ xdg.pc = "built"
    /\ "to_xdg_desktop" \notin xdg.called
    /\ xdg' = [xdg EXCEPT !.called = @ \cup {"to_xdg_desktop"},
                          !.xdg_desktop = to_xdg_desktop(xdg.self)]
    /\ UNCHANGED <<cli, spawnVars, pamVars, xVars, uiVars,
                   envVars>>

\* A value whose serialization functions have not been called.
XdgBuilt(self) ==
    [pc |-> "built", self |-> self, called |-> {}, xdg_type |-> "",
     xdg_desktop |-> None]

XdgIdle == xdg = [XdgBuilt([kind |-> "Shell"]) EXCEPT !.pc = "idle"]

(***************************************************************************)
(* Cli::parse_args.                                                        *)
(***************************************************************************)

\* The arguments of the model: subcommands (one of them padded with
\* blanks), flags without and with a value, and values.
CliArgs ==
    {"gui-test", " envs ", "--help", "--preview", "--no-log", "--tty",
     "--config", "0", "12", "13"}

\* The number of arguments of a command line.
MaxArgs == 3

ArgLists == UNION {[1..n -> CliArgs] : n \in 0..MaxArgs}

\* str::trim, on the arguments of the model.
trim(arg) == IF arg = " envs " THEN "envs" ELSE arg

\* str::parse::<u8>, on the arguments of the model.
parse(arg) ==
    CASE arg = "0"  -> Some(0)
      [] arg = "12" -> Some(12)
      [] arg = "13" -> Some(13)
      [] OTHER      -> None

\* The Cli that parse_args starts from.
CliNew ==
    [preview |-> FALSE, no_log |-> FALSE, tty |-> None, config |-> None,
     variables |-> None, command |-> None, xsessions |-> None,
     wlsessions |-> None, initial_path |-> None]

Ok(value) == [kind |-> "Ok", arg |-> "", value |-> value]

Err(kind, arg) == [kind |-> kind, arg |-> arg, value |-> CliNew]

NotReturned == [kind |-> "none", arg |-> "", value |-> CliNew]

\* A subcommand that starts from a fresh Cli.
SetCommand_Fresh(value, command) ==
    [CliNew EXCEPT !.command = Some(command)]

\* cli.command = Some(command)
SetCommand(value, command) ==
    [value EXCEPT !.command = Some(command)]

\* An arm of a flag with a value: args.next().ok_or(MissingArgument(..))?,
\* then the assignment of the field.
TakeValue(st, field, flag) ==
    IF Len(st.rest) < 2
    THEN [st EXCEPT !.rest = <<>>,
                    !.result = Err("MissingArgument", flag)]
    ELSE [st EXCEPT !.rest = SubSeq(@, 3, Len(@)),
                    !.value[field] = Some(st.rest[2])]

\* The arm of --tty.
TakeTty(st) ==
    IF Len(st.rest) < 2
    THEN [st EXCEPT !.rest = <<>>,
                    !.result = Err("MissingArgument", "tty")]
    ELSE LET n == parse(st.rest[2]) IN
         IF n = None \/ n = Some(0) \/ n[1] > 12
         THEN [st EXCEPT !.rest = SubSeq(@, 3, Len(@)),
                         !.result = Err("InvalidTTY", "")]
         ELSE [st EXCEPT !.rest = SubSeq(@, 3, Len(@)),
                         !.value.tty = n]

\* One iteration of the while loop of parse_args, or its end.
ParseStep(st) ==
    IF st.rest = <<>> THEN [st EXCEPT !.result = Ok(st.value)]
    ELSE
    LET arg  == trim(Head(st.rest))
        skip == [st EXCEPT !.rest = Tail(@)]
        Command(c) == [skip EXCEPT !.value = SetCommand(st.value, c)]
    IN  CASE arg = "envs" -> Command("Envs")
          [] arg = "cache" -> Command("Cache")
          [] arg \in {"help", "--help", "-h"} -> Command("Help")
          [] arg \in {"--version", "-V"} -> Command("Version")
          [] arg = "gui-test" -> Command("GuiTest")
          [] arg = "--preview" -> [skip EXCEPT !.value.preview = TRUE]
          [] arg = "--no-log" -> [skip EXCEPT !.value.no_log = TRUE]
          [] arg = "--tty" -> TakeTty(st)
          [] arg \in {"--config", "-c"} -> TakeValue(st, "config", "config")
          [] arg = "--xsessions" ->
               TakeValue(st, "xsessions", "xsessions")
          [] arg = "--wlsessions" ->
               TakeValue(st, "wlsessions", "wlsessions")
          [] arg \in {"--variables", "-v"} ->
               TakeValue(st, "variables", "variables")
          [] arg = "--initial-path" ->
               TakeValue(st, "initial_path", "initial-path")
          [] OTHER -> [skip EXCEPT !.rest = <<>>,
                                   !.result = Err("InvalidArgument", arg)]

\* parse_args is called with args.
ParseStart(args) ==
    [pc |-> "parsing", args |-> args, rest |-> args, value |-> CliNew,
     result |-> NotReturned]

RECURSIVE ParseLoop(_)
ParseLoop(st) ==
    IF st.result # NotReturned THEN st.result ELSE ParseLoop(ParseStep(st))

parse_args(args) == ParseLoop(ParseStart(args))

\* The loop of parse_args handles its next argument.
CliParseArg ==
    /\ cli.pc = "parsing"
    /\ cli.rest # <<>>
    /\ cli' = LET st == ParseStep(cli) IN
              IF st.result # NotReturned THEN [st EXCEPT !.pc = "returned"]
              ELSE st
    /\ UNCHANGED <<xdg, spawnVars, pamVars, xVars, uiVars,
                   envVars>>

\* The arguments are exhausted: parse_args returns Ok(cli).
CliReturn ==
    /\ cli.pc = "parsing"
    /\ cli.rest = <<>>
    /\ cli' = [ParseStep(cli) EXCEPT !.pc = "returned"]
    /\ UNCHANGED <<xdg, spawnVars, pamVars, xVars, uiVars,
                   envVars>>

CliIdle == cli = [ParseStart(<<>>) EXCEPT !.pc = "idle"]

(***************************************************************************)
(* EnvironmentContainer (src/src/env_container.rs).                        *)
(***************************************************************************)

EnvKeys == {"PATH", "DISPLAY"}

EnvValues == {"a", "b"}

WorkingDirs == {"/", "/home/user"}

\* The number of operations applied to one container.
MaxOps == 3

\* The maps from some of the keys to values.
EnvMaps == UNION {[ks -> EnvValues] : ks \in SUBSET EnvKeys}

\* HashMap::remove
remove(map, key) == [k \in DOMAIN map \ {key} |-> map[k]]

\* EnvironmentContainer::new: the variables of the process environment.
EnvironmentContainerNew(process_env, current_dir) ==
    [vars |-> process_env, working_dir |-> current_dir]

\* EnvironmentContainer::set
set(self, key, value) == [self EXCEPT !.vars = insert(@, key, value)]

\* EnvironmentContainer::set_or_preserve
set_or_preserve(self, key, value) ==
    IF key \in DOMAIN self.vars THEN self ELSE set(self, key, value)

\* EnvironmentContainer::set_or_own
set_or_own(self, key, value) == set_or_preserve(self, key, value)

\* EnvironmentContainer::remove_var
remove_var(self, key) == [self EXCEPT !.vars = remove(@, key)]

\* EnvironmentContainer::set_current_dir
set_current_dir(self, value) == [self EXCEPT !.working_dir = value]

\* A Command keeps the variables set on it and whether its environment was
\* cleared; without a current_dir it runs in the directory of its parent.
\* A clear that forgets nothing.
env_clear_Keep(command) == command

\* Command::env_clear: the variables set so far are forgotten and nothing
\* is inherited.
env_clear(command) == [command EXCEPT !.cleared = TRUE, !.envs = EmptyMap]

\* Command::env
env(command, key, val) == [command EXCEPT !.envs = insert(@, key, val)]

RECURSIVE EnvEach(_, _, _)
\* The for loop over the variables of the container.
EnvEach(command, map, todo) ==
    IF todo = {} THEN command
    ELSE LET key == CHOOSE k \in todo : TRUE IN
         EnvEach(env(command, key, map[key]), map, todo \ {key})

\* EnvironmentContainer::apply_to_command
apply_to_command(self, command) ==
    [EnvEach(env_clear(command), self.vars, DOMAIN self.vars)
        EXCEPT !.current_dir = self.working_dir]

\* The environment of the child of a command spawned by a process whose
\* environment is inherited.
ChildEnvironment(command, inherited) ==
    LET base == IF command.cleared THEN EmptyMap ELSE inherited IN
    [k \in DOMAIN base \cup DOMAIN command.envs |->
        IF k \in DOMAIN command.envs THEN command.envs[k] ELSE base[k]]

\* The commands that apply_to_command is given: fresh, or with a variable
\* already set on them.
EnvCommands ==
    {[cleared |-> FALSE, envs |-> m, current_dir |-> "inherited"] :
        m \in {EmptyMap, [k \in {"DISPLAY"} |-> "b"]}}

NoOp == [op |-> "none", key |-> "", value |-> "", before |-> EmptyMap]

\* One operation on the container, recorded with the variables before it.
EnvOp(op, key, value, after) ==
    /\ container.pc = "built"
    /\ container.ops < MaxOps
    /\ container' = [container EXCEPT
          !.self = after,
          !.ops = @ + 1,
          !.last = [op |-> op, key |-> key, value |-> value,
                    before |-> container.self.vars]]
    /\ UNCHANGED <<listing, spawnVars, pamVars, xVars, uiVars, pureVars>>

EnvSet ==
    \E key \in EnvKeys, value \in EnvValues :
       EnvOp("set", key, value, set(container.self, key, value))

EnvSetOrPreserve ==
    \E key \in EnvKeys, value \in EnvValues :
       EnvOp("set_or_preserve", key, value,
             set_or_preserve(container.self, key, value))

EnvSetOrOwn ==
    \E key \in EnvKeys, value \in EnvValues :
       EnvOp("set_or_own", key, value,
             set_or_own(container.self, key, value))

EnvRemoveVar ==
    \E key \in EnvKeys :
       EnvOp("remove_var", key, "", remove_var(container.self, key))

EnvSetCurrentDir ==
    \E value \in WorkingDirs :
       EnvOp("set_current_dir", "", value,
             set_current_dir(container.self, value))

\* apply_to_command on the command of the session.
EnvApplyToCommand ==
    /\ container.pc = "built"
    /\ container' = [container EXCEPT
          !.pc = "applied",
          !.command = apply_to_command(container.self, @),
          !.last = [op |-> "apply_to_command", key |-> "", value |-> "",
                    before |-> container.self.vars]]
    /\ UNCHANGED <<listing, spawnVars, pamVars, xVars, uiVars, pureVars>>

\* A container made by EnvironmentContainer::new in a process with the
\* environment process_env, and the command it will be applied to.
EnvBuilt(process_env, command) ==
    [pc |-> "built", process_env |-> process_env,
     self |-> EnvironmentContainerNew(process_env, "/"),
     command |-> command, ops |-> 0, last |-> NoOp]

EnvIdle ==
    container = [EnvBuilt(EmptyMap,
                          [cleared |-> FALSE, envs |-> EmptyMap,
                           current_dir |-> "inherited"])
                   EXCEPT !.pc = "idle"]

(***************************************************************************)
(* get_envs (src/src/post_login/mod.rs).                                   *)
(***************************************************************************)

\* The number of entries of a directory.
MaxDirEntries == 2

\* The files of the wayland sessions directory: what is wrong with the
\* file, if anything, and its Exec and Name keys.
DesktopFiles ==
    {[fault |-> f, exec |-> "sway", name |-> "Sway"] :
        f \in {"unreadable", "no Exec"}}
    \cup {[fault |-> "none", exec |-> "sway", name |-> n] :
            n \in {"Sway", "missing"}}

\* The files of the scripts directory: the mode bits, the file name and
\* the path (None when they are not valid UTF-8).
ScriptFiles ==
    {[is_executable |-> x, file_name |-> f, path |-> p] :
        x \in BOOLEAN, f \in {None, Some("river")},
        p \in {None, Some("/etc/lemurs/wayland/river")}}
    \ {[is_executable |-> x, file_name |-> None,
        path |-> Some("/etc/lemurs/wayland/river")] : x \in BOOLEAN}

\* What fs::read_dir returns: None for Err, or the entries in the order of
\* the iteration.
ReadDirs(files) ==
    {None} \cup
    {Some(d) : d \in UNION {[1..n -> files] : n \in 0..MaxDirEntries}}

GetEnvsInputs ==
    [include_tty_shell : BOOLEAN, wayland_sessions : ReadDirs(DesktopFiles),
     scripts : ReadDirs(ScriptFiles)]

Terminal == [title |-> "Terminal", content |-> [kind |-> "Shell"]]

WaylandEntry(name, script_path) ==
    [title |-> name,
     content |-> [kind |-> "Wayland", script_path |-> script_path,
                  env_name |-> name]]

\* parse_desktop_entry: Ok((name, exec)), with the Exec value as name when
\* there is no Name, or Err.
parse_desktop_entry(file) ==
    IF file.fault # "none" THEN None
    ELSE Some(<< IF file.name = "missing" THEN file.exec ELSE file.name,
                 file.exec >>)

RECURSIVE LoadSessions(_, _, _)
\* The for loop over the wayland sessions directory from entry i on.
LoadSessions(paths, i, envs) ==
    IF i > Len(paths) THEN envs
    ELSE LET parsed == parse_desktop_entry(paths[i]) IN
         LoadSessions(paths, i + 1,
                      IF parsed = None THEN envs
                      ELSE Append(envs, WaylandEntry(parsed[1][1],
                                                     parsed[1][2])))

RECURSIVE LoadScripts(_, _, _)
\* The for loop over the scripts directory from entry i on.
LoadScripts(paths, i, envs) ==
    IF i > Len(paths) THEN envs
    ELSE LET file == paths[i] IN
         LoadScripts(paths, i + 1,
                     IF \/ ~file.is_executable
                        \/ file.file_name = None
                        \/ file.path = None
                     THEN envs
                     ELSE Append(envs, WaylandEntry(file.file_name[1],
                                                    file.path[1])))

\* A fallback that is left out.
Fallback_None(envs) == envs

\* The fallback: a list that is empty gets the Terminal entry.
Fallback(envs) == IF envs = <<>> THEN << Terminal >> ELSE envs

GetEnvsTty ==
    /\ listing.pc = "tty"
    /\ listing' = [listing EXCEPT
          !.pc = "wayland_sessions",
          !.envs = IF listing.config.include_tty_shell
                   THEN Append(@, Terminal) ELSE @]
    /\ UNCHANGED <<container, spawnVars, pamVars, xVars, uiVars, pureVars>>

GetEnvsSessions ==
    /\ listing.pc = "wayland_sessions"
    /\ listing' = [listing EXCEPT
          !.pc = "scripts",
          !.envs = IF listing.config.wayland_sessions = None THEN @
                   ELSE LoadSessions(listing.config.wayland_sessions[1],
                                     1, @)]
    /\ UNCHANGED <<container, spawnVars, pamVars, xVars, uiVars, pureVars>>

GetEnvsScripts ==
    /\ listing.pc = "scripts"
    /\ listing' = [listing EXCEPT
          !.pc = "fallback",
          !.envs = IF listing.config.scripts = None THEN @
                   ELSE LoadScripts(listing.config.scripts[1], 1, @)]
    /\ UNCHANGED <<container, spawnVars, pamVars, xVars, uiVars, pureVars>>

GetEnvsReturn ==
    /\ listing.pc = "fallback"
    /\ listing' = [listing EXCEPT !.pc = "returned", !.envs = Fallback(@)]
    /\ UNCHANGED <<container, spawnVars, pamVars, xVars, uiVars, pureVars>>

\* get_envs is called with the configuration and directories of config.
GetEnvsStart(config) == [pc |-> "tty", config |-> config, envs |-> <<>>]

GetEnvsIdle ==
    listing = [GetEnvsStart([include_tty_shell |-> FALSE,
                             wayland_sessions |-> None, scripts |-> None])
                 EXCEPT !.pc = "idle"]

(***************************************************************************)
(* Specifications.                                                         *)
(***************************************************************************)

InitSpawn ==
    /\ child = NoChild
    /\ spawner = SpawnIdle
    /\ PamIdle
    /\ XIdle
    /\ UiIdle
    /\ XdgIdle
    /\ CliIdle
    /\ EnvIdle
    /\ GetEnvsIdle

NextSpawn ==
    \/ SpawnBegin
    \/ ChildHookStep
    \/ ChildExec
    \/ SpawnReturn

SpecSpawn == InitSpawn /\ [][NextSpawn]_vars

InitPam ==
    /\ child = NoChild
    /\ spawner = SpawnIdle
    /\ PamIdle
    /\ XIdle
    /\ UiIdle
    /\ XdgIdle
    /\ CliIdle
    /\ EnvIdle
    /\ GetEnvsIdle

NextPam ==
    \/ OpenSessionStart
    \/ Conversation
    \/ PamAuthenticateReturn
    \/ PamAcctMgmtReturn
    \/ PamSetcredReturn
    \/ PamOpenSessionReturn
    \/ PamGetenvlistReturn
    \/ AuthUserInfoDrop

SpecPam == InitPam /\ [][NextPam]_vars

\* The harvest of the environment list: open_session at its call of
\* pam_getenvlist, the four PAM steps having succeeded, with any list.
InitEnv ==
    /\ child = NoChild
    /\ spawner = SpawnIdle
    /\ XIdle
    /\ UiIdle
    /\ XdgIdle
    /\ CliIdle
    /\ EnvIdle
    /\ GetEnvsIdle
    /\ pam_pc = "pam_getenvlist"
    /\ \E env_list \in EnvLists :
          pam_in = [username_nul |-> FALSE, service_nul |-> FALSE,
                    password |-> [text |-> "hunter2", nul |-> FALSE],
                    lookup |-> "not yet", env_list |-> env_list]
    /\ handle = "live"
    /\ last_status = PAM_SUCCESS
    /\ password = [value |-> None, poisoned |-> FALSE]
    /\ conv_data = "allocated"
    /\ pam_log = << LogEntry("pam_start", PAM_SUCCESS),
                    LogEntry("pam_authenticate", PAM_SUCCESS),
                    LogEntry("pam_acct_mgmt", PAM_SUCCESS),
                    LogEntry("pam_setcred", PAM_SUCCESS),
                    LogEntry("pam_open_session", PAM_SUCCESS) >>
    /\ last_conv = [during |-> "none", msgs |-> <<>>, ret |-> PAM_SUCCESS,
                    published |-> FALSE, resp |-> <<>>, leaked |-> <<>>,
                    panic |-> FALSE]
    /\ auth_result = Result("none", 0)
    /\ pam_env = EmptyMap

NextEnv ==
    \/ PamGetenvlistReturn
    \/ AuthUserInfoDrop

SpecEnv == InitEnv /\ [][NextEnv]_vars

\* setup_x is called with any signal mask.
InitX ==
    /\ child = NoChild
    /\ spawner = SpawnIdle
    /\ PamIdle
    /\ UiIdle
    /\ XdgIdle
    /\ CliIdle
    /\ EnvIdle
    /\ GetEnvsIdle
    /\ x_pc = "idle"
    /\ x_in = [pre |-> "ok", xserver_timeout_secs |-> 0, do_log |-> FALSE,
               user_info |-> [uid |-> 1000, primary_gid |-> 100,
                              all_gids |-> {100}, shell |-> "/bin/bash"]]
    /\ mask0 \in SUBSET Signals
    /\ sigmask = mask0
    /\ signal_fd = "none"
    /\ pending = {}
    /\ usr1 = "unsent"
    /\ clock = 0
    /\ start_time = 0
    /\ poll_timeout = 0
    /\ x_result = "none"
    /\ x_events = NoEvents

NextX ==
    \/ XBegin
    \/ XBlock
    \/ XSignalFd
    \/ XSpawn
    \/ ChildExec
    \/ XSpawnReturn
    \/ XLoopTop
    \/ XPoll
    \/ XTryWait
    \/ XReady
    \/ XChildSignal
    \/ XChildExit

SpecX == InitX /\ [][NextX]_vars

\* The wait of setup_x, from the sampling of start_time on, with a system
\* clock that can be set back.
InitXClock ==
    /\ spawner = SpawnIdle
    /\ PamIdle
    /\ UiIdle
    /\ XdgIdle
    /\ CliIdle
    /\ EnvIdle
    /\ GetEnvsIdle
    /\ x_pc = "loop"
    /\ \E secs \in TimeoutSecs :
          x_in = [pre |-> "ok", xserver_timeout_secs |-> secs,
                  do_log |-> FALSE,
                  user_info |-> [uid |-> 1000, primary_gid |-> 100,
                                 all_gids |-> {100}, shell |-> "/bin/bash"]]
    /\ mask0 = {}
    /\ sigmask = BlockSignal(mask0)
    /\ child = [LemursChildSpawn(XServerCommand(x_in), x_in.do_log,
                                 LauncherCreds, sigmask)
                  EXCEPT !.pc = "running",
                         !.calls = << [call |-> "exec", ok |-> TRUE] >>]
    /\ signal_fd = "open"
    /\ pending = {}
    /\ usr1 = "unsent"
    /\ clock = 0
    /\ start_time = clock
    /\ poll_timeout = 0
    /\ x_result = "none"
    /\ x_events = NoEvents

NextXClock ==
    \/ XLoopTop
    \/ XPoll
    \/ XTryWait
    \/ XReady
    \/ XChildSignal
    \/ XChildExit
    \/ XClockSet

SpecXClock == InitXClock /\ [][NextXClock]_vars

\* LoginForm::run with any focus, after the channel is made and the thread
\* is spawned.
InitUi ==
    /\ child = NoChild
    /\ spawner = SpawnIdle
    /\ PamIdle
    /\ XIdle
    /\ ui_pc = "read"
    /\ \E config \in UiConfigs :
         /\ ui_in \in UiInputs
         /\ ui_in.switcher_hidden = hidden(config)
         /\ input_mode = InitialInputMode(config)
    /\ status_message = None
    /\ keys = <<>>
    /\ chan = <<>>
    /\ draw_pc = "running"
    /\ sent = <<>>
    /\ handled = <<>>
    /\ key_log = <<>>
    /\ attempts = 0
    /\ XdgIdle
    /\ CliIdle
    /\ EnvIdle
    /\ GetEnvsIdle

NextUi ==
    \/ UiType
    \/ UiKey
    \/ UiSleepReturn
    \/ UiAuthenticateReturn
    \/ UiLaunchReturn
    \/ UiWaitReturn
    \/ UiDraw

SpecUi == InitUi /\ [][NextUi]_vars

\* A PostLoginEnvironment, before its serialization.
InitXdg ==
    /\ child = NoChild
    /\ spawner = SpawnIdle
    /\ PamIdle
    /\ XIdle
    /\ UiIdle
    /\ CliIdle
    /\ EnvIdle
    /\ GetEnvsIdle
    /\ \E self \in XdgEnvironments : xdg = XdgBuilt(self)

NextXdg ==
    \/ XdgType
    \/ XdgDesktop

SpecXdg == InitXdg /\ [][NextXdg]_vars

\* parse_args is called with any command line.
InitCli ==
    /\ child = NoChild
    /\ spawner = SpawnIdle
    /\ PamIdle
    /\ XIdle
    /\ UiIdle
    /\ XdgIdle
    /\ \E args \in ArgLists : cli = ParseStart(args)
    /\ EnvIdle
    /\ GetEnvsIdle

NextCli ==
    \/ CliParseArg
    \/ CliReturn

SpecCli == InitCli /\ [][NextCli]_vars

\* An EnvironmentContainer made in any process environment.
InitContainer ==
    /\ child = NoChild
    /\ spawner = SpawnIdle
    /\ PamIdle
    /\ XIdle
    /\ UiIdle
    /\ XdgIdle
    /\ CliIdle
    /\ GetEnvsIdle
    /\ \E process_env \in EnvMaps, command \in EnvCommands :
          container = EnvBuilt(process_env, command)

NextContainer ==
    \/ EnvSet
    \/ EnvSetOrPreserve
    \/ EnvSetOrOwn
    \/ EnvRemoveVar
    \/ EnvSetCurrentDir
    \/ EnvApplyToCommand

SpecContainer == InitContainer /\ [][NextContainer]_vars

\* get_envs is called with any configuration and directory content.
InitGetEnvs ==
    /\ child = NoChild
    /\ spawner = SpawnIdle
    /\ PamIdle
    /\ XIdle
    /\ UiIdle
    /\ XdgIdle
    /\ CliIdle
    /\ EnvIdle
    /\ \E config \in GetEnvsInputs : listing = GetEnvsStart(config)

NextGetEnvs ==
    \/ GetEnvsTty
    \/ GetEnvsSessions
    \/ GetEnvsScripts
    \/ GetEnvsReturn

SpecGetEnvs == InitGetEnvs /\ [][NextGetEnvs]_vars

(***************************************************************************)
(* Properties of the privilege drop (under SpecSpawn).                      *)
(***************************************************************************)

DropCalls == {"setgroups", "setgid", "setuid"}

\* C1: when setgroups, setgid or setuid fails in the forked child, the
\* failed call is the last call the child makes (no later drop step, no
\* exec), the child is aborted, and spawn does not return a child.
C1_FailedStepAborts ==
    \A i \in 1..Len(child.calls) :
        (child.calls[i].call \in DropCalls /\ ~child.calls[i].ok) =>
            /\ i = Len(child.calls)
            /\ child.pc = "aborted"
            /\ spawner.result # "Ok"

\* C1 witness: setgroups succeeded, setgid failed, and spawn has returned.
C1_Witness ==
    /\ Len(child.calls) = 2
    /\ child.calls[2].call = "setgid"
    /\ ~child.calls[2].ok
    /\ spawner.pc = "returned"

\* C2: the calls of every child are, in this order, setgroups, setgid,
\* setuid and exec (or a prefix of that), and a child whose program runs
\* has made all four with success.
C2_DropOrder ==
    LET order == << "setgroups", "setgid", "setuid", "exec" >> IN
    /\ Len(child.calls) <= Len(order)
    /\ \A i \in 1..Len(child.calls) : child.calls[i].call = order[i]
    /\ child.pc = "running" =>
          /\ Len(child.calls) = Len(order)
          /\ \A i \in 1..Len(child.calls) : child.calls[i].ok

\* C2 witness: a child that made the three calls and runs its program.
C2_Witness ==
    /\ child.pc = "running"
    /\ Len(child.calls) = 4
    /\ spawner.user_info.uid = 1000

\* C3: a session program (TTY shell or Wayland script) that runs has
\* exactly the credentials of the authenticated user: supplementary groups
\* all_gids, gid primary_gid, uid uid; and it has made each of the three
\* calls of the privilege drop with success.
C3_TargetCredentials ==
    child.pc = "running" =>
        /\ child.groups = spawner.user_info.all_gids
        /\ child.gid = spawner.user_info.primary_gid
        /\ child.uid = spawner.user_info.uid
        /\ \A c \in DropCalls :
              \E i \in 1..Len(child.calls) :
                 child.calls[i] = [call |-> c, ok |-> TRUE]

\* C3 witness: a Wayland session running as uid 1000 with both groups.
C3_Witness ==
    /\ child.pc = "running"
    /\ spawner.self.kind = "Wayland"
    /\ child.uid = 1000
    /\ child.groups = {100, 1000}
    /\ spawner.result = "Ok"

(***************************************************************************)
(* Properties of open_session (under SpecPam).                             *)
(***************************************************************************)

\* The calls of pam_log that are steps of the transaction.
StepCalls(log) ==
    SelectSeq(log, LAMBDA e : e.call \in {"pam_start"} \cup PamSteps)

\* C4: open_session returns an AuthUserInfo only after pam_start,
\* pam_authenticate, pam_acct_mgmt, pam_setcred and pam_open_session were
\* each called once, in that order, and each returned PAM_SUCCESS; after
\* the first failing step open_session has returned an error and no other
\* step is called.
C4_AllStepsOrError ==
    LET steps == StepCalls(pam_log) IN
    /\ auth_result.tag = "Ok" =>
          steps = << LogEntry("pam_start", PAM_SUCCESS),
                     LogEntry("pam_authenticate", PAM_SUCCESS),
                     LogEntry("pam_acct_mgmt", PAM_SUCCESS),
                     LogEntry("pam_setcred", PAM_SUCCESS),
                     LogEntry("pam_open_session", PAM_SUCCESS) >>
    /\ \A i, j \in 1..Len(steps) : steps[i].call = steps[j].call => i = j
    /\ \A i \in 1..Len(steps) :
          steps[i].ret # PAM_SUCCESS =>
              /\ i = Len(steps)
              /\ pam_pc = "returned"
              /\ auth_result.tag \notin {"none", "Ok"}
              /\ \A k \in 1..Len(pam_log) :
                    pam_log[k].call # "pam_getenvlist"

\* C4 witness: open_session returned an AuthUserInfo.
C4_Witness ==
    /\ auth_result.tag = "Ok"
    /\ pam_pc = "returned"
    /\ Len(pam_log) = 6

AfterAuthenticate == {"pam_acct_mgmt", "pam_setcred", "pam_open_session"}

\* C5: from the call of pam_acct_mgmt on the held secret is cleared, and a
\* conversation that takes place during pam_acct_mgmt, pam_setcred or
\* pam_open_session hands out no copy of the secret.
C5_SecretClearedAfterAuthenticate ==
    /\ pam_pc \in AfterAuthenticate => password.value = None
    /\ last_conv.during \in AfterAuthenticate =>
          /\ \A i \in 1..Len(last_conv.resp) : last_conv.resp[i].resp = "null"
          /\ last_conv.leaked = <<>>
          /\ ~last_conv.panic

\* C5 witness: a password prompt during pam_acct_mgmt was answered.
C5_Witness ==
    /\ last_conv.during = "pam_acct_mgmt"
    /\ last_conv.published
    /\ last_conv.msgs[1] = PAM_PROMPT_ECHO_OFF
    /\ last_conv.resp[1].resp = "null"

Count(log, call) == Len(SelectSeq(log, LAMBDA e : e.call = call))

\* C6: once open_session has returned an error, or the AuthUserInfo it
\* returned is dropped, a transaction whose pam_start yielded a handle has
\* had its opened session closed once and its handle ended once, and a
\* transaction without a handle has had no teardown.
C6_TeardownExactlyOnce ==
    (pam_pc = "dropped" \/ (pam_pc = "returned" /\ auth_result.tag # "Ok")) =>
        IF Count(pam_log, "pam_start") = 1
           /\ pam_log[1].ret = PAM_SUCCESS
        THEN /\ Count(pam_log, "pam_end") = 1
             /\ LogEntry("pam_open_session", PAM_SUCCESS) \in
                    {pam_log[i] : i \in 1..Len(pam_log)}
                  => Count(pam_log, "pam_close_session") = 1
        ELSE /\ Count(pam_log, "pam_end") = 0
             /\ Count(pam_log, "pam_close_session") = 0

(***************************************************************************)
(* Properties of setup_x (under SpecX).                                    *)
(***************************************************************************)

\* C7: whenever setup_x has returned after it blocked SIGUSR1 (every
\* return but those of the steps before the signal set-up), SIGUSR1 is
\* not blocked.
C7_UnblockedOnEveryReturn ==
    (x_pc = "returned" /\ x_result \notin PreOutcomes) =>
        SIGUSR1 \notin sigmask

\* C8: when setup_x has returned with Ready, TimedOut, PrematureExit or an
\* error, the signal mask of the thread is the mask it had at the call.
C8_MaskRestored ==
    x_pc = "returned" => sigmask = mask0

C10_XServerDropped ==
    child.pc = "running" =>
        /\ [i \in 1..Len(child.calls) |-> child.calls[i].call] =
              << "setgroups", "setgid", "setuid", "exec" >>
        /\ SIGUSR1 \in child.sigmask

\* C10 amended: the X server child is spawned without the privilege drop:
\* its command has no pre_exec closure, it makes no call but exec and keeps
\* the credentials of the login manager; it inherits the blocked SIGUSR1.
C10_XServerKeepsLauncherIdentity ==
    child.pc # "none" =>
        /\ child.command.pre_exec = <<>>
        /\ \A i \in 1..Len(child.calls) : child.calls[i].call = "exec"
        /\ child.uid = LauncherCreds.uid
        /\ child.gid = LauncherCreds.gid
        /\ child.groups = LauncherCreds.groups
        /\ SIGUSR1 \in child.sigmask

\* C10 witness: the X server runs while setup_x polls for its signal.
C10_Witness ==
    /\ child.pc = "running"
    /\ x_pc = "poll"
    /\ x_in.user_info.uid = 1000


(***************************************************************************)
(* The readiness wait of setup_x.                                          *)
(***************************************************************************)

\* setup_x has returned from its wait loop.
XWaitEnded ==
    /\ x_pc = "returned"
    /\ x_result \in {"Ok", "XServerTimeout", "PollError",
                     "XServerPrematureExit"}

\* The configured timeout in milliseconds.
TotalMs == x_in.xserver_timeout_secs * 1000

\* The moment `at` lies before the end of the configured timeout.
BeforeTimeout(at) ==
    x_in.xserver_timeout_secs = 0 \/ Elapsed(at, start_time) < TotalMs

\* The child sent SIGUSR1 while setup_x was under way and before the
\* configured timeout had elapsed.
SentInTime ==
    /\ x_events.sent_at # -1
    /\ x_events.sent_pc # "returned"
    /\ BeforeTimeout(x_events.sent_at)

\* The child exited by itself while setup_x was under way and before the
\* configured timeout had elapsed.
ExitedInTime ==
    /\ x_events.exit_at # -1
    /\ x_events.exit_pc # "returned"
    /\ BeforeTimeout(x_events.exit_at)

\* Neither poll nor a read of the SignalFd has failed.
NoWaitFault == x_result # "PollError" /\ ~x_events.read_err

C14_ZeroTimeoutIsUnbounded ==
    x_in.xserver_timeout_secs = 0
        => /\ x_result # "XServerTimeout"
           /\ child.pc # "killed"
           /\ XWaitEnded =>
                \/ x_result = "Ok" /\ x_events.sent_pc \notin
                                         {"never", "returned"}
                \/ x_result = "XServerPrematureExit" /\ child.pc = "reaped"
                \/ x_result = "PollError"

\* With a zero timeout the launcher still polls after more than the
\* largest non-zero timeout has elapsed.
C14_Witness ==
    /\ x_in.xserver_timeout_secs = 0
    /\ x_pc = "poll"
    /\ Elapsed(clock, start_time) = MaxClock
    /\ child.pc = "running"

\* C15: the X server child is killed only by the timeout path, with a
\* non-zero timeout that has elapsed; Ok, XServerPrematureExit, PollError
\* and the failures before the loop never kill a child.
C15_KillOnlyOnTimeout ==
    /\ child.pc = "killed"
          => /\ x_pc = "returned"
             /\ x_result = "XServerTimeout"
             /\ x_in.xserver_timeout_secs # 0
             /\ Elapsed(clock, start_time) >= TotalMs
    /\ (x_pc = "returned" /\ x_result # "XServerTimeout")
          => child.pc # "killed"

\* The timeout path has killed a running child.
C15_Witness ==
    /\ x_pc = "returned"
    /\ x_result = "XServerTimeout"
    /\ child.pc = "killed"

(***************************************************************************)
(* The errors of open_session.                                             *)
(***************************************************************************)

\* The PAM step whose failing status ended open_session, if there is one.
FailedStep ==
    LET steps == StepCalls(pam_log) IN
    IF steps # <<>> /\ steps[Len(steps)].ret # PAM_SUCCESS
    THEN Some(steps[Len(steps)]) ELSE None

\* The status codes that have an error variant of their own.
DedicatedCodes == {PAM_CRED_UNAVAIL, PAM_CRED_EXPIRED}

\* C16, as stated: whichever PAM step fails, a failing code without a
\* variant of its own is returned as Other(code) with that code.
C16_EveryStepCarriesCode ==
    (pam_pc = "returned" /\ FailedStep # None
       /\ FailedStep[1].ret \notin DedicatedCodes)
        => auth_result = Result("Other", FailedStep[1].ret)

\* C16: Other(code) is the fallback of pam_setcred alone.  A failing
\* pam_setcred code other than PAM_CRED_UNAVAIL and PAM_CRED_EXPIRED is
\* returned as Other(code) with exactly that code, and Other is returned in
\* no other case; a failing code of pam_start, pam_authenticate,
\* pam_acct_mgmt or pam_open_session is returned as the variant of the step
\* (PamService, AccountValidation, SessionOpen), which carries no code.
C16_OtherIsSetcredFallback ==
    pam_pc = "returned" =>
        /\ auth_result.tag = "Other"
              <=> /\ FailedStep # None
                  /\ FailedStep[1].call = "pam_setcred"
                  /\ FailedStep[1].ret \notin DedicatedCodes
        /\ auth_result.tag = "Other"
              => auth_result.code = FailedStep[1].ret
        /\ (FailedStep # None /\ FailedStep[1].call # "pam_setcred")
              => /\ auth_result.code = 0
                 /\ auth_result.tag \in
                        {"PamService", "AccountValidation", "SessionOpen"}

\* pam_setcred failed with PAM_CRED_ERR and open_session returned Other
\* with that code.
C16_Witness ==
    /\ pam_pc = "returned"
    /\ FailedStep = Some(LogEntry("pam_setcred", 17))
    /\ auth_result = Result("Other", 17)

\* C17: the error of open_session is that of the one step that failed, the
\* last one called: PamService for pam_start, AccountValidation for
\* pam_authenticate and pam_acct_mgmt, for pam_setcred CredUnavailable on
\* PAM_CRED_UNAVAIL, CredExpired on PAM_CRED_EXPIRED and Other(code) on any
\* other code, SessionOpen for pam_open_session.
C17_ErrorTable ==
    (pam_pc = "returned" /\ FailedStep # None) =>
        LET step == FailedStep[1].call
            code == FailedStep[1].ret
        IN
        /\ \A i \in 1..(Len(StepCalls(pam_log)) - 1) :
              StepCalls(pam_log)[i].ret = PAM_SUCCESS
        /\ step = "pam_start" => auth_result = Result("PamService", 0)
        /\ step = "pam_authenticate"
              => auth_result = Result("AccountValidation", 0)
        /\ step = "pam_acct_mgmt"
              => auth_result = Result("AccountValidation", 0)
        /\ (step = "pam_setcred" /\ code = PAM_CRED_UNAVAIL)
              => auth_result = Result("CredUnavailable", 0)
        /\ (step = "pam_setcred" /\ code = PAM_CRED_EXPIRED)
              => auth_result = Result("CredExpired", 0)
        /\ (step = "pam_setcred" /\ code \notin DedicatedCodes)
              => auth_result = Result("Other", code)
        /\ step = "pam_open_session" => auth_result = Result("SessionOpen", 0)

\* pam_setcred failed with PAM_CRED_EXPIRED after three successful steps.
C17_Witness ==
    /\ pam_pc = "returned"
    /\ FailedStep = Some(LogEntry("pam_setcred", PAM_CRED_EXPIRED))
    /\ Len(StepCalls(pam_log)) = 4
    /\ auth_result = Result("CredExpired", 0)

\* C18: when the four PAM steps succeeded and the name service finds no
\* user, open_session returns UsernameNotFound, neither an AuthUserInfo nor
\* a panic, and the handle has been ended once by the drop of the
\* PamAuthenticator.
C18_MissingUserIsAnError ==
    pam_in.lookup = "none" =>
        /\ pam_pc = "returned"
        /\ auth_result = Result("UsernameNotFound", 0)
        /\ Len(StepCalls(pam_log)) = 5
        /\ FailedStep = None
        /\ handle = "ended"
        /\ Count(pam_log, "pam_end") = 1
        /\ conv_data = "freed"

\* The lookup found no user after the session was opened.
C18_Witness ==
    /\ pam_in.lookup = "none"
    /\ LogEntry("pam_open_session", PAM_SUCCESS) \in
          {pam_log[i] : i \in DOMAIN pam_log}
    /\ auth_result.tag = "UsernameNotFound"
    /\ handle = "ended"

(***************************************************************************)
(* The harvested environment.                                              *)
(***************************************************************************)

\* The name/value pairs PAM exports with the list open_session was given.
Exported == {ExportedPair(pam_in.env_list[i]) : i \in DOMAIN pam_in.env_list}

\* C19: after a successful open_session the environment map of the
\* AuthUserInfo, as its field pam_env and as get_env returns it, holds
\* exactly the name/value pairs of PAM's environment list, each with its
\* name and its value unchanged.
C19_EnvExactlyExported ==
    (pam_pc = "returned" /\ auth_result.tag = "Ok")
        => /\ Pairs(get_env(auth_result)) = Exported
           /\ Pairs(pam_env) = Exported

(***************************************************************************)
(* The conversation callback.                                              *)
(***************************************************************************)

\* The four message styles the callback answers.
KnownStyles ==
    {PAM_PROMPT_ECHO_OFF, PAM_PROMPT_ECHO_ON, PAM_ERROR_MSG, PAM_TEXT_INFO}

\* Every message of the latest conversation has one of the four styles.
AllKnown == \A i \in DOMAIN last_conv.msgs : last_conv.msgs[i] \in KnownStyles

\* The secret the callback holds during the latest conversation: the
\* password until pam_authenticate has returned, nothing afterwards.
Held ==
    IF last_conv.during = "pam_authenticate" THEN Some(pam_in.password)
    ELSE None

\* The response the callback owes to message i of the latest conversation.
Owed(i) ==
    IF last_conv.msgs[i] \in {PAM_PROMPT_ECHO_OFF, PAM_PROMPT_ECHO_ON}
       /\ Held # None
    THEN [resp |-> Held[1].text, resp_retcode |-> 0]
    ELSE [resp |-> "null", resp_retcode |-> 0]

\* The latest conversation returned PAM_SUCCESS and published one response
\* per message, each the one owed.
Answered ==
    /\ last_conv.ret = PAM_SUCCESS
    /\ ~last_conv.panic
    /\ last_conv.published
    /\ DOMAIN last_conv.resp = DOMAIN last_conv.msgs
    /\ \A i \in DOMAIN last_conv.msgs : last_conv.resp[i] = Owed(i)

\* The latest conversation returned PAM_CONV_ERR and published nothing.
Refused ==
    /\ last_conv.ret = PAM_CONV_ERR
    /\ ~last_conv.panic
    /\ ~last_conv.published

EnterInPassword ==
    Cardinality({i \in 1..Len(key_log) :
                    key_log[i].code = "Enter" /\ key_log[i].mode = "Password"})

\* The requests sent by the step.
NewlySent == {sent'[i] : i \in (Len(sent) + 1)..Len(sent')}

\* C21, as stated: outside the preview, start_session has been invoked
\* once for every Enter key read in Password mode, and when it returns an
\* error the thread sets an error status and sends nothing but Redraw
\* requests.
C21_OnlyRedrawAfterError ==
    [][ /\ ~ui_in'.preview => attempts' = EnterInPassword'
        /\ (ui_pc \in {"authenticate", "launch"} /\ ui_pc' = "read") =>
             /\ status_message' \in {Some(m) : m \in ErrorStatusMessages}
             /\ NewlySent \subseteq {"Redraw"} ]_vars

\* C21: start_session is invoked once for every Enter key read in Password
\* mode outside the preview, and never in the preview; a further attempt
\* starts only in a step that reads a key; and when start_session returns
\* an error the thread sets an error status, sends only Redraw requests
\* and, after an EnvironmentStartError, the EnableTui request before them,
\* and is back at event::read without a new attempt.
C21_NoAutomaticRetry ==
    [][ /\ attempts' = IF ui_in'.preview THEN 0 ELSE EnterInPassword'
        /\ attempts' # attempts =>
             /\ ui_pc = "read"
             /\ Len(key_log') = Len(key_log) + 1
             /\ attempts' = attempts + 1
        /\ (ui_pc \in {"authenticate", "launch"} /\ ui_pc' = "read") =>
             /\ status_message' \in {Some(m) : m \in ErrorStatusMessages}
             /\ NewlySent \subseteq
                  (IF ui_pc = "launch" THEN {"Redraw", "EnableTui"}
                   ELSE {"Redraw"})
             /\ attempts' = attempts
             /\ key_log' = key_log ]_vars

C21_Witness ==
    /\ attempts = 2
    /\ ui_pc = "read"
    /\ status_message = Some("FailedGraphicalEnvironment")

\* C22: while the thread that runs start_session is blocked in it, a key
\* event the terminal holds can be read and handled.
C22_KeysHandledDuringSession ==
    (ui_pc \in InSession /\ keys # <<>>) => ENABLED UiKey

\* C23: while the drawing loop runs, the requests sent are exactly the
\* requests handled followed by the requests in flight; the requests
\* handled are always a prefix of the requests sent; and a step of the
\* spawned thread is possible whatever the number of requests in flight.
C23_RequestsHandledInOrder ==
    /\ draw_pc = "running" => sent = handled \o chan
    /\ Len(handled) <= Len(sent)
    /\ handled = SubSeq(sent, 1, Len(handled))
    /\ (ui_pc = "read" /\ keys # <<>>) => ENABLED UiKey
    /\ ui_pc \in InSession \cup {"sleep1", "sleep2"} =>
         ENABLED (UiSleepReturn \/ UiAuthenticateReturn \/ UiLaunchReturn
                    \/ UiWaitReturn)

C23_Witness ==
    /\ draw_pc = "running"
    /\ Len(handled) >= 3
    /\ Len(chan) >= 2
    /\ \E i \in 1..Len(handled) : handled[i] = "DisableTui"
    /\ \E i \in 1..Len(chan) : chan[i] = "EnableTui"

(***************************************************************************)
(* The error that spawn returns for a failed drop (under SpecSpawn).       *)
(***************************************************************************)

\* The typed error of the claim, for each step.
PrivilegeDropFailed(step) ==
    CASE step = "setgroups" -> "PrivilegeDropFailed(setgroups)"
      [] step = "setgid"    -> "PrivilegeDropFailed(setgid)"
      [] step = "setuid"    -> "PrivilegeDropFailed(setuid)"

\* The step of the drop that failed in the child, if any.
FailedDropSteps ==
    {child.calls[i].call : i \in {j \in 1..Len(child.calls) :
                                     /\ child.calls[j].call \in DropCalls
                                     /\ ~child.calls[j].ok}}

\* C24: when a step of the drop has failed in the child, spawn returns the
\* error PrivilegeDropFailed(step) of that step, and no child handle.
C24_SpawnNamesFailedStep ==
    (spawner.pc = "returned" /\ FailedDropSteps # {}) =>
        /\ spawner.result \in {PrivilegeDropFailed(step) :
                                 step \in FailedDropSteps}
        /\ spawner.result # "Ok"

(***************************************************************************)
(* Properties of the serialization (under SpecXdg).                        *)
(***************************************************************************)

\* C25: to_xdg_type returns "wayland" for every Wayland environment and
\* "tty" for Shell; to_xdg_desktop returns Some(env_name) for every Wayland
\* environment and None for Shell.
C25_XdgSerialization ==
    /\ "to_xdg_type" \in xdg.called =>
         xdg.xdg_type = IF xdg.self.kind = "Wayland" THEN "wayland" ELSE "tty"
    /\ "to_xdg_desktop" \in xdg.called =>
         xdg.xdg_desktop = IF xdg.self.kind = "Wayland"
                           THEN << xdg.self.env_name >> ELSE << >>

C25_Witness ==
    /\ xdg.called = XdgFunctions
    /\ xdg.self.kind = "Wayland"
    /\ xdg.self.env_name = "Hyprland"
    /\ xdg.xdg_type = "wayland"
    /\ xdg.xdg_desktop = << "Hyprland" >>

(***************************************************************************)
(* Properties of parse_args (under SpecCli).                               *)
(***************************************************************************)

Subcommands == {"envs", "cache", "help", "gui-test"}

BooleanFlags == {"--preview", "--no-log"}

\* A command line of one subcommand and of boolean flags.
OneSubcommandAndFlags(args) ==
    /\ Cardinality({i \in 1..Len(args) : trim(args[i]) \in Subcommands}) = 1
    /\ \A i \in 1..Len(args) : trim(args[i]) \in Subcommands \cup BooleanFlags

\* The arguments in the order p.
Reordered(args, p) == [i \in 1..Len(args) |-> args[p[i]]]

\* C26: for a command line of one subcommand and boolean flags, parse_args
\* returns Ok with that subcommand as command and with each boolean field
\* set exactly when its flag is given, and it returns the same for every
\* other order of the arguments.
C26_OrderIndependent ==
    (cli.pc = "returned" /\ OneSubcommandAndFlags(cli.args)) =>
        /\ cli.result.kind = "Ok"
        /\ cli.result.value.command # None
        /\ cli.result.value.preview =
             (\E i \in 1..Len(cli.args) : cli.args[i] = "--preview")
        /\ cli.result.value.no_log =
             (\E i \in 1..Len(cli.args) : cli.args[i] = "--no-log")
        /\ \A p \in Permutations(1..Len(cli.args)) :
             parse_args(Reordered(cli.args, p)) = cli.result

C26_Witness ==
    /\ cli.pc = "returned"
    /\ cli.args = << "--preview", "gui-test", "--no-log" >>
    /\ cli.result.kind = "Ok"
    /\ cli.result.value.command = << "GuiTest" >>
    /\ cli.result.value.preview

(***************************************************************************)
(* The iterations of the readiness wait (under SpecX and SpecXClock).      *)
(***************************************************************************)

WaitPositions == {"loop", "poll", "try_wait"}

OtherPollErrnos == PollErrnos \ {"EINTR"}

\* C27: a poll that fails with EINTR is followed by the liveness check with
\* the wait still going on, and after it the wait ends only by the liveness
\* check or the deadline; a poll that fails with any other error makes
\* setup_x return PollError, and PollError is returned for no other reason.
C27_EintrRetriesOtherErrorsEnd ==
    [][ /\ (x_pc = "poll" /\ x_pc' # "poll"
              /\ x_events'.last_poll = "EINTR") =>
             /\ x_pc' = "try_wait"
             /\ x_result' = "none"
             /\ child' = child
        /\ x_events'.last_poll = "EINTR" =>
             x_result' \in {"none", "XServerPrematureExit", "XServerTimeout"}
        /\ (x_pc = "poll" /\ x_events'.last_poll \in OtherPollErrnos) =>
             x_result' = "PollError"
        /\ x_result' = "PollError" =>
             x_events'.last_poll \in OtherPollErrnos ]_vars

C27_Witness ==
    /\ x_events.last_poll = "EINTR"
    /\ x_pc = "poll"
    /\ x_result = "none"
    /\ clock > 0

\* C28, as stated: every poll that does not yield readiness is followed by
\* the liveness check.
C28_LivenessCheckAfterEveryPoll ==
    [][ (x_pc = "poll" /\ x_pc' \notin {"poll", "ready"}) =>
           x_pc' = "try_wait" ]_vars

\* C28: the timeout of every poll is at most the 100 ms interval and at
\* most the time remaining; a poll takes no longer than its timeout; a
\* poll that returns without readiness is followed by the liveness check,
\* unless it failed with an error other than EINTR, which ends the wait;
\* and the wait never goes on for more than one interval after the child
\* has exited.
C28_BoundedPollThenLivenessCheck ==
    [][ /\ x_pc' = "poll" =>
             /\ poll_timeout' >= 0
             /\ poll_timeout' <= poll_interval
             /\ poll_timeout' <=
                  RemainingTime(x_in'.xserver_timeout_secs,
                                Elapsed(clock', start_time'))
        /\ (x_pc = "poll" /\ x_pc' # "poll") =>
             /\ clock' - clock <= poll_timeout
             /\ \/ x_pc' \in {"ready", "try_wait"}
                \/ x_result' = "PollError"
        /\ (x_pc' \in WaitPositions /\ x_events'.exit_at # -1) =>
             clock' - x_events'.exit_at <= poll_interval ]_vars

C28_Witness ==
    /\ x_result = "XServerPrematureExit"
    /\ usr1 = "unsent"
    /\ x_events.exit_pc = "poll"
    /\ x_events.exit_at > 0
    /\ clock - x_events.exit_at <= poll_interval
    /\ clock - x_events.exit_at > 0

\* C29: while setup_x waits, the elapsed time it computes from the clock
\* never decreases.
C29_ElapsedNeverDecreases ==
    [][ (x_pc \in WaitPositions) =>
           Elapsed(clock', start_time') >= Elapsed(clock, start_time) ]_vars

(***************************************************************************)
(* The conversation context of open_session (under SpecPam).               *)
(***************************************************************************)

\* C30: while the handle is live, and at every position at which a PAM call
\* can invoke the callback, the ConvData is allocated; and its release is
\* the last thing that happens to the transaction, directly after the
\* pam_end of a handle that pam_start yielded.
C30_ContextOutlivesHandle ==
    /\ handle = "live" => conv_data = "allocated"
    /\ pam_pc \in PamSteps => conv_data = "allocated"
    /\ conv_data = "freed" => handle \in {"null", "ended"}
    /\ \A i \in 1..Len(pam_log) :
          pam_log[i].call = "drop(conv_data)" =>
             /\ i = Len(pam_log)
             /\ pam_log[1] = LogEntry("pam_start", PAM_SUCCESS) =>
                   /\ i > 1
                   /\ pam_log[i - 1].call = "pam_end"

C30_Witness ==
    /\ pam_pc = "returned"
    /\ auth_result.tag = "SessionOpen"
    /\ handle = "ended"
    /\ conv_data = "freed"
    /\ pam_log[Len(pam_log)].call = "drop(conv_data)"
    /\ pam_log[Len(pam_log) - 1].call = "pam_end"

\* The keys other than key map to the same values in both maps.
OtherKeysUnchanged(before, after, key) ==
    /\ DOMAIN after \ {key} = DOMAIN before \ {key}
    /\ \A k \in DOMAIN after \ {key} : after[k] = before[k]

\* C31: an EnvironmentContainer behaves as a key/value map: after set(k, v)
\* the key k maps to v; set_or_preserve and set_or_own change the map only
\* when k was absent, and then k maps to v; after remove_var(k) the key k
\* is absent; each of these leaves every other key as it was; and after
\* apply_to_command the child of the command gets exactly the variables of
\* the container, none inherited from the process and none set on the
\* command before.
C31_ContainerIsAMap ==
    LET last == container.last
        before == last.before
        after == container.self.vars
    IN /\ last.op = "set" =>
            /\ last.key \in DOMAIN after
            /\ after[last.key] = last.value
            /\ OtherKeysUnchanged(before, after, last.key)
       /\ last.op \in {"set_or_preserve", "set_or_own"} =>
            IF last.key \in DOMAIN before THEN after = before
            ELSE /\ last.key \in DOMAIN after
                 /\ after[last.key] = last.value
                 /\ OtherKeysUnchanged(before, after, last.key)
       /\ last.op = "remove_var" =>
            /\ last.key \notin DOMAIN after
            /\ OtherKeysUnchanged(before, after, last.key)
       /\ last.op = "set_current_dir" => after = before
       /\ container.pc = "applied" =>
            /\ after = before
            /\ ChildEnvironment(container.command, container.process_env)
                 = after

\* A container that had a variable of the process removed and another one
\* set is applied to a command.
C31_Witness ==
    /\ container.pc = "applied"
    /\ container.ops > 1
    /\ container.self.vars # EmptyMap
    /\ \E k \in DOMAIN container.process_env :
          k \notin DOMAIN container.self.vars
    /\ \E k \in DOMAIN container.self.vars :
          \/ k \notin DOMAIN container.process_env
          \/ container.process_env[k] # container.self.vars[k]

\* The entries of a list that start a shell.
ShellEntries(envs) ==
    {i \in 1..Len(envs) : envs[i].content.kind = "Shell"}

\* The entries of a directory that get_envs takes, in their order.
GoodSessions(dir) ==
    IF dir = None THEN <<>>
    ELSE SelectSeq(dir[1], LAMBDA f : f.fault = "none")

GoodScripts(dir) ==
    IF dir = None THEN <<>>
    ELSE SelectSeq(dir[1], LAMBDA f : /\ f.is_executable
                                      /\ f.file_name # None
                                      /\ f.path # None)

\* C32: the list get_envs returns is never empty; with include_tty_shell
\* its first entry is the Shell entry, then come the entries of the
\* wayland sessions directory in their order, then the executable scripts
\* in their order; when nothing at all was found the list is the single
\* Shell entry; and the list never has more than one Shell entry.
C32_ListNeverEmptyAndOrdered ==
    listing.pc = "returned" =>
        LET envs == listing.envs
            tty == IF listing.config.include_tty_shell THEN 1 ELSE 0
            sessions == GoodSessions(listing.config.wayland_sessions)
            scripts == GoodScripts(listing.config.scripts)
            found == tty + Len(sessions) + Len(scripts)
        IN /\ envs # <<>>
           /\ Cardinality(ShellEntries(envs)) <= 1
           /\ found = 0 => envs = << Terminal >>
           /\ found > 0 =>
                /\ Len(envs) = found
                /\ tty = 1 => envs[1] = Terminal
                /\ \A i \in 1..Len(sessions) :
                      /\ envs[tty + i].content.kind = "Wayland"
                      /\ envs[tty + i].content.script_path
                           = sessions[i].exec
                /\ \A i \in 1..Len(scripts) :
                      /\ envs[tty + Len(sessions) + i].content.kind
                           = "Wayland"
                      /\ envs[tty + Len(sessions) + i].content.script_path
                           = scripts[i].path[1]

\* Nothing is found and the fallback entry is the whole list.
C32_Witness ==
    /\ listing.pc = "returned"
    /\ ~listing.config.include_tty_shell
    /\ listing.config.wayland_sessions # None
    /\ listing.config.wayland_sessions[1] # <<>>
    /\ listing.envs = << Terminal >>

(***************************************************************************)
(* More properties of setup_x (under SpecX).                               *)
(***************************************************************************)

\* C33: within one iteration the deadline comes first, then the readiness
\* signal, then the exit of the child: the step that leaves the head of
\* the loop with the deadline expired returns XServerTimeout, even with
\* SIGUSR1 pending; a poll that reads the SIGUSR1 leaves the loop without
\* the liveness check; and the step after the read returns Ok whatever
\* has become of the child.
C33_DeadlineThenSignalThenExit ==
    [][ /\ (/\ x_pc = "loop"
            /\ x_pc' # "loop"
            /\ x_in.xserver_timeout_secs # 0
            /\ Elapsed(clock, start_time) >= TotalMs)
              => (x_pc' = "returned" /\ x_result' = "XServerTimeout")
        /\ (usr1 # "read" /\ usr1' = "read")
              => (x_pc = "poll" /\ x_pc' = "ready")
        /\ (x_pc = "ready" /\ x_pc' # "ready")
              => (x_pc' = "returned" /\ x_result' = "Ok") ]_vars

\* The deadline expired with the SIGUSR1 pending, which the return then
\* unblocked.
C33_Witness ==
    /\ x_pc = "returned"
    /\ x_result = "XServerTimeout"
    /\ x_events.sent_at >= 0
    /\ usr1 = "delivered"
    /\ child.pc = "killed"

\* C34: setup_x returns Ok only after the SIGUSR1 that the spawned X
\* server sent was read from the SignalFd by the last poll: a poll that
\* timed out, was interrupted or was followed by a failed read does not
\* lead to Ok.
C34_ReadyOnlyAfterSignalRead ==
    (x_pc = "ready" \/ (x_pc = "returned" /\ x_result = "Ok"))
        => /\ usr1 = "read"
           /\ x_events.last_poll = "POLLIN"
           /\ x_events.sent_at >= 0
           /\ child # NoChild
           /\ SIGUSR1 \notin pending

\* setup_x returned Ok after a failed read, an interrupted poll or a poll
\* that timed out earlier in the wait.
C34_Witness ==
    /\ x_pc = "returned"
    /\ x_result = "Ok"
    /\ x_events.read_err
    /\ clock > start_time

\* C35: when setup_x returns an error of the wait for the spawned X server
\* (timeout, premature exit, poll error), the X server has exited or has
\* been killed.
C35_NoLiveServerAfterError ==
    (/\ x_pc = "returned"
     /\ x_result \in {"XServerTimeout", "XServerPrematureExit", "PollError"})
        => child.pc \in {"exited", "killed", "reaped"}

(***************************************************************************)
(* More properties of the conversation callback (under SpecPam).           *)
(***************************************************************************)

\* C36: when the conversation callback returns early with PAM_CONV_ERR,
\* for a message of unknown style or a poisoned Mutex, none of the
\* response strings it had allocated for the earlier messages is left
\* allocated.
C36_AbortFreesResponseStrings ==
    (last_conv.ret = PAM_CONV_ERR /\ ~last_conv.panic)
        => last_conv.leaked = <<>>

(***************************************************************************)
(* More properties of LoginForm::run (under SpecUi).                       *)
(***************************************************************************)

\* C37: outside the preview no request sent is StopDrawing, and the
\* drawing loop ends only on a failed DisableTui or EnableTui; StopDrawing
\* is sent only in the preview, by the step that reads an Esc key in
\* Normal mode.
C37_StopDrawingOnlyInPreview ==
    [][ /\ ("StopDrawing" \in NewlySent) =>
             /\ ui_in.preview
             /\ ui_pc = "read"
             /\ keys # <<>>
             /\ Head(keys) = "Esc"
             /\ input_mode = "Normal"
        /\ ~ui_in'.preview =>
             /\ \A i \in 1..Len(sent') : sent'[i] # "StopDrawing"
             /\ (draw_pc = "running" /\ draw_pc' = "stopped") =>
                  handled'[Len(handled')] \in {"DisableTui", "EnableTui"}
      ]_vars

\* In the preview an Esc key in Normal mode has ended the drawing loop.
C37_Witness ==
    /\ ui_in.preview
    /\ draw_pc = "stopped"
    /\ handled # <<>>
    /\ handled[Len(handled)] = "StopDrawing"
    /\ key_log[Len(key_log)] = [code |-> "Esc", mode |-> "Normal"]

\* C38: in the preview start_session is never called, whatever the keys;
\* an Enter key read in Password mode sets the status Authenticating and
\* starts the first sleep, after which the status is LoggingIn, and after
\* the second sleep the status is cleared and the thread reads keys again.
C38_PreviewNeverStartsSession ==
    [][ ui_in.preview =>
          /\ attempts' = 0
          /\ ui_pc' \notin InSession
          /\ (ui_pc = "read" /\ key_log' # key_log) =>
               IF Head(keys) = "Enter" /\ input_mode = "Password"
               THEN /\ ui_pc' = "sleep1"
                    /\ status_message' = Some("Authenticating")
               ELSE ui_pc' = "read"
          /\ (ui_pc = "sleep1" /\ ui_pc' # "sleep1") =>
               /\ ui_pc' = "sleep2"
               /\ status_message' = Some("LoggingIn")
          /\ (ui_pc = "sleep2" /\ ui_pc' # "sleep2") =>
               /\ ui_pc' = "read"
               /\ status_message' = None ]_vars

\* The preview of a login has run to its end.
C38_Witness ==
    /\ ui_in.preview
    /\ EnterInPassword = 1
    /\ ui_pc = "read"
    /\ status_message = None
    /\ attempts = 0
    /\ Len(sent) >= 4

\* C39: while the switcher is hidden the input mode is not Switcher.
C39_HiddenSwitcherNeverFocused ==
    (ui_pc # "idle" /\ ui_in.switcher_hidden) => input_mode # "Switcher"

\* The requests of a sequence that come after a DisableTui with no
\* EnableTui in between.
WhileTuiDisabled(requests) ==
    {k \in 1..Len(requests) :
        \E i \in 1..(k - 1) :
           /\ requests[i] = "DisableTui"
           /\ \A j \in (i + 1)..(k - 1) : requests[j] # "EnableTui"}

\* C40: no Redraw request is handled, or sent, after a DisableTui with no
\* EnableTui in between.
C40_NoRedrawWhileTuiDisabled ==
    /\ \A k \in WhileTuiDisabled(handled) : handled[k] # "Redraw"
    /\ \A k \in WhileTuiDisabled(sent) : sent[k] # "Redraw"

\* A session has ended and the drawing loop has drawn again after it gave
\* up the screen and took it back.
C40_Witness ==
    /\ \E i, j, k \in 1..Len(handled) :
          /\ i < j /\ j < k
          /\ handled[i] = "DisableTui"
          /\ handled[j] = "EnableTui"
          /\ handled[k] = "Redraw"
    /\ draw_pc = "running"

=============================================================================
